---- MODULE Spec2Model ----
(***************************************************************************)
(* A model of the etl register / bit-field framework (etl/biffield): the   *)
(* field metadata of generate_constants.h, the value types of              *)
(* generate_value_types.h, the static checks of checks.h and the accessors *)
(* of generate_accessors.h (read, write, swap, update).                    *)
(*                                                                         *)
(* An unsigned integer of w bits is represented by the set of the          *)
(* positions of its 1 bits, a subset of 0..w-1, so that 32 and 64 bit      *)
(* registers keep their full width.                                        *)
(***************************************************************************)
EXTENDS Integers, Sequences, FiniteSets, TLC

VARIABLES
    access_type,  \* __at: width in bits of the register's access type
    field,        \* the field declaration F under study: [low_bit, high_bit, ft, n]
    bits,         \* _bits of the current foo_value_t
    hist,         \* the derivations (with_...) applied to reach bits, oldest first
    got,          \* the result of the last get_... on bits, or NoGet
    cell,         \* _foo: the register's storage cell
    initial,      \* the contents of the cell when the update calls began
    fn,           \* per update call: the modification function passed to it
    pc,           \* per update call: its position in the loop of update_foo
    before,       \* per update call: the local 'before'
    candidate,    \* per update call: the value of fn(before)
    succeeded,    \* per update call: the local 'succeeded'
    attempts,     \* per update call: reads performed so far
    fails,        \* per update call: swaps that returned false so far
    interfered,   \* per update call: changes of the cell by others during the call
    foreign,      \* writes another agent (an interrupt handler) may still issue
    swaps,        \* history: the calls whose swap succeeded, in order, and how many
                  \* had succeeded when each call last read the cell
    schema,       \* the field declarations of the register definition being built
    phase,        \* "compile", then "rejected" or "built"
    errors,       \* the diagnostics of the build
    decl,         \* the register declaration under study: [kind, n]
    Storage,      \* the cells of the peripheral: register -> index -> contents
    thread,       \* per agent: the accessor call in progress and its locals
    pending,      \* accessor calls the interrupt handler may still make
    nvic_hw,      \* the NVIC's interrupts: [enabled, pended], sets of IRQ numbers
    nvic_call,    \* per agent: its call of enable_irq, disable_irq or clear_pending_irq
    rcc,          \* the reset and clock enable registers of the RCC, by name
    rcc_log,      \* the calls of the Rcc driver made so far, oldest first
    gpio,         \* the configuration registers of one GPIO port, by name
    gpio_call,    \* the call of a Gpio mutator in progress and its locals
    arena,        \* the Arena: its members, its policies, whether an assertion failed
    arena_log,    \* the calls made on the Arena so far, oldest first
    guard,        \* the ScopeGuard objects of one make_guard call, and the calls of its function
    guard_log     \* the moves, dismissals and destructions so far, oldest first

valueVars == <<field, bits, hist, got>>
updateVars == <<cell, initial, fn, pc, before, candidate, succeeded,
                attempts, fails, interfered, foreign, swaps>>
buildVars == <<schema, phase, errors>>
deviceVars == <<decl, Storage, thread, pending>>
libVars == <<nvic_hw, nvic_call, rcc, rcc_log, gpio, gpio_call, arena, arena_log,
             guard, guard_log>>
coreVars == <<valueVars, updateVars, buildVars, deviceVars>>
vars == <<access_type, coreVars, libVars>>

(***************************************************************************)
(* Bounds of the model.                                                    *)
(***************************************************************************)
MaxPattern == 2    \* sample bit patterns: every p-th bit set, p in 1..MaxPattern
MaxDerive == 2     \* longest chain of with_ derivations from one Value
MaxUpdaters == 2   \* concurrent update calls on one cell
MaxForeign == 2    \* writes by another agent during an update call
MaxBanks == 2      \* interrupt priority registers of the modelled NVIC
MaxRccCalls == 2   \* calls of the Rcc driver in one run
MaxArenaCalls == 5 \* calls made on one Arena
MaxGuards == 3     \* ScopeGuard objects derived from one make_guard call
UnsignedBits == 8  \* width of the unsigned of an element index, which wraps at 2 ^ UnsignedBits
MaxCalls == 3      \* concurrent update calls with arbitrary functions
MaxGuardCalls == 5 \* moves, dismissals and destructions of those guards
SizeBits == 8      \* modelled width of std::size_t: sizes wrap at 2 ^ SizeBits

(***************************************************************************)
(* Machine integers as bit sets.                                           *)
(***************************************************************************)
Widths == {8, 16, 32, 64}

\* The width C++ computes in: operands narrower than int (32 bits on the
\* targets of this library) are promoted to int.
Promoted(w) == IF w < 32 THEN 32 ELSE w

AllOnes(w) == 0 .. (w - 1)
\* Conversion to an unsigned type of w bits keeps the low w bits.
Trunc(v, w) == v \cap AllOnes(w)
\* v << s in w-bit arithmetic.
Shl(v, s, w) == {b + s : b \in v} \cap AllOnes(w)
\* v >> s.
Shr(v, s) == {b - s : b \in {c \in v : c >= s}}
\* ~v in w-bit arithmetic.
Not(v, w) == AllOnes(w) \ v
\* v - 1 in w-bit two's complement arithmetic.
Dec(v, w) ==
    IF v = {} THEN AllOnes(w)
    ELSE LET m == CHOOSE b \in v : \A c \in v : b <= c
         IN  (v \ {m}) \cup AllOnes(m)
One == {0}
Zero == {}


(***************************************************************************)
(* generate_constants.h: per-field metadata.  A field declaration is       *)
(* [low_bit, high_bit, ft, n]: the bit range __bf, the field type __ft     *)
(* (its width in bits; 1 stands for bool) and, for ETL_BFF_FIELD_ARRAY,    *)
(* the bits per element __n (0 for ETL_BFF_FIELD and ETL_BFF_FIELD_E).     *)
(***************************************************************************)
bit_count(f) == f.high_bit - f.low_bit + 1

shift_amt(at, f) == bit_count(f) % at

\* Faulty variant: the mask computed as (1 << bit_count) - 1 in every case.
low_mask_eval_naive(at, f) ==
    [value  |-> IF bit_count(f) >= Promoted(at) THEN Zero
                ELSE Trunc(Dec(Shl(One, bit_count(f), Promoted(at)),
                               Promoted(at)), at),
     shifts |-> {bit_count(f)}]

\* The initializer of low_mask: its value, and the amounts of the shifts its
\* evaluation performs (the conditional evaluates one branch only).
low_mask_eval(at, f) ==
    IF bit_count(f) = at
    THEN [value  |-> Trunc(Dec(Zero, Promoted(at)), at),
          shifts |-> {}]
    ELSE [value  |-> Trunc(Dec(Shl(One, shift_amt(at, f), Promoted(at)),
                               Promoted(at)), at),
          shifts |-> {shift_amt(at, f)}]

low_mask(at, f) == low_mask_eval(at, f).value

\* Faulty variant: the shift performed in int whatever the access type.
in_place_mask_int(at, f) == Trunc(Shl(low_mask(at, f), f.low_bit, 32), at)

in_place_mask(at, f) == Trunc(Shl(low_mask(at, f), f.low_bit, Promoted(at)), at)

bits_per_element(f) == f.n

element_count(f) == bit_count(f) \div bits_per_element(f)

low_element_mask(at, f) ==
    Trunc(Dec(Shl(One, bits_per_element(f), Promoted(at)), Promoted(at)), at)

\* Faulty variant: the element index not scaled by bits_per_element.
low_bit_of_unscaled(f, idx) == f.low_bit + idx

\* unsigned arithmetic: low_bit + idx * bits_per_element wraps.
low_bit_of(f, idx) == (f.low_bit + idx * bits_per_element(f)) % (2 ^ UnsignedBits)

\* Faulty variant: the mask of the whole field shifted to the element.
in_place_mask_of_field(at, f, idx) ==
    Trunc(Shl(low_mask(at, f), low_bit_of(f, idx), Promoted(at)), at)

in_place_mask_of(at, f, idx) ==
    Trunc(Shl(low_element_mask(at, f), low_bit_of(f, idx), Promoted(at)), at)

(***************************************************************************)
(* checks.h: the static_asserts on a field declaration.                    *)
(***************************************************************************)
bitfield_checks(at, f) ==
    /\ f.high_bit >= f.low_bit
    /\ f.high_bit < at
    /\ (f.n # 0 => bit_count(f) % f.n = 0)

(***************************************************************************)
(* generate_value_types.h: foo_value_t.                                    *)
(***************************************************************************)
\* Faulty variant: every integer field type taken to be 8 bits wide.
to_field_type_byte(ft, v) ==
    IF ft = 1 THEN (IF v = Zero THEN Zero ELSE One) ELSE Trunc(v, 8)

\* Conversion of an integer to the field type: bool(v) is v != 0, an unsigned
\* type keeps the low bits.
to_field_type(ft, v) ==
    IF ft = 1 THEN (IF v = Zero THEN Zero ELSE One) ELSE Trunc(v, ft)

\* explicit constexpr foo_value_t(access_type bits)
value_t(at, raw) == Trunc(raw, at)

\* constexpr foo_value_t() : _bits(0)
value_default(at) == value_t(at, Zero)

\* Faulty variant: the value shifted to high_bit instead of low_bit.
with_field_at_high(at, f, _bits, value) ==
    value_t(at,
        (_bits \cap Not(in_place_mask(at, f), Promoted(at)))
        \cup Shl(Trunc(value, at) \cap low_mask(at, f), f.high_bit, Promoted(at)))

\* Faulty variant: the previous contents of the field not cleared.
with_field_keeps_old(at, f, _bits, value) ==
    value_t(at,
        _bits \cup Shl(Trunc(value, at) \cap low_mask(at, f), f.low_bit, Promoted(at)))

\* Faulty variant: the value not masked with low_mask before the shift.
with_field_unmasked(at, f, _bits, value) ==
    value_t(at,
        (_bits \cap Not(in_place_mask(at, f), Promoted(at)))
        \cup Shl(Trunc(value, at), f.low_bit, Promoted(at)))

with_field(at, f, _bits, value) ==
    value_t(at,
        (_bits \cap Not(in_place_mask(at, f), Promoted(at)))
        \cup Shl(Trunc(value, at) \cap low_mask(at, f), f.low_bit, Promoted(at)))

\* with_ is a const member function: _bits of the receiver once it returned.
receiver_after(_bits, result) == _bits

\* Faulty variant: the bits not shifted down by low_bit.
get_field_unshifted(at, f, _bits) ==
    to_field_type(f.ft, _bits \cap low_mask(at, f))

get_field(at, f, _bits) ==
    to_field_type(f.ft, Shr(_bits, f.low_bit) \cap low_mask(at, f))

with_field_array(at, f, _bits, idx, value) ==
    value_t(at,
        (_bits \cap Not(in_place_mask_of(at, f, idx), Promoted(at)))
        \cup Shl(Trunc(value, at) \cap low_element_mask(at, f),
                 low_bit_of(f, idx), Promoted(at)))

get_field_array(at, f, _bits, idx) ==
    to_field_type(f.ft, Shr(_bits, low_bit_of(f, idx)) \cap low_element_mask(at, f))


(***************************************************************************)
(* The register declarations and input values the model ranges over.       *)
(***************************************************************************)
\* Sample bit patterns of a w-bit integer: 0, and every p-th bit set
\* (p = 1: all ones, p = 2: 0xAA.., ...).
Pattern(p, w) == IF p = 0 THEN Zero ELSE {b \in AllOnes(w) : (b + 1) % p = 0}
Samples(w) == {Pattern(p, w) : p \in 0 .. MaxPattern}

\* The values of a field type passed to a derivation: 0, all ones (wider
\* than any field narrower than the type) and one alternating pattern.
FieldTypeValues(ft) ==
    IF ft = 1 THEN {Zero, One}
    ELSE {Zero, AllOnes(ft), Pattern(MaxPattern, ft)}

\* Bit positions at which the modelled fields start and end.
Positions(at) == {0, 1, at \div 2 - 1, at \div 2, at - 1}

\* The narrowest field type able to represent every value of bc bits.
MinType(bc) ==
    IF bc = 1 THEN 1 ELSE CHOOSE t \in Widths : bc <= t /\ \A u \in Widths : bc <= u => t <= u

\* The field types of the modelled fields: the narrowest type that holds the
\* field, and the register's access type.
FieldTypes(at, bc) == {MinType(bc), at}

\* Numbers of elements of the modelled array fields.
ElementCounts == {1, 2, 4}

ScalarFields(at) ==
    {f \in [low_bit : Positions(at), high_bit : Positions(at),
            ft : {1} \cup Widths, n : {0}] :
        /\ bitfield_checks(at, f)
        /\ f.ft \in FieldTypes(at, bit_count(f))}

ArrayFields(at) ==
    {f \in [low_bit : {0, at \div 2}, high_bit : {at - 1},
            ft : {1} \cup Widths, n : {at \div c : c \in {1, 2, 4, 8}}] :
        /\ bitfield_checks(at, f)
        /\ element_count(f) \in ElementCounts
        /\ f.n < Promoted(at)      \* 1 << __n is a constant expression
        /\ f.ft = MinType(f.n)}

Fields(at) == ScalarFields(at) \cup ArrayFields(at)

\* Another field declared in the register of f, not overlapping f: the bits
\* below f or, if f starts at bit 0, the bits above f, as one field of the
\* access type.
Neighbours(at, f) ==
    IF f.low_bit > 0
    THEN {[low_bit |-> 0, high_bit |-> f.low_bit - 1, ft |-> at, n |-> 0]}
    ELSE IF f.high_bit < at - 1
    THEN {[low_bit |-> f.high_bit + 1, high_bit |-> at - 1, ft |-> at, n |-> 0]}
    ELSE {}

RegisterFields(at, f) == {f} \cup Neighbours(at, f)

Indices(f) == IF f.n = 0 THEN {0} ELSE 0 .. (element_count(f) - 1)

NoGet == [f |-> <<>>, idx |-> 0, value |-> Zero]

(***************************************************************************)
(* The value machine: a foo_value_t is constructed from raw bits, derived  *)
(* from with with_..., and read with get_....                              *)
(***************************************************************************)
\* The register definition in use has been built without a diagnostic.
NoBuild == schema = {} /\ phase = "built" /\ errors = {}

\* The drivers and library classes of machines that are not running, but
\* for those named in running.
NoLib(running) ==
    /\ IF "nvic" \in running THEN TRUE
       ELSE nvic_hw = [enabled |-> {}, pended |-> {}] /\ nvic_call = <<>>
    /\ IF "rcc" \in running THEN TRUE ELSE rcc = <<>> /\ rcc_log = <<>>
    /\ IF "gpio" \in running THEN TRUE ELSE gpio = <<>> /\ gpio_call = <<>>
    /\ IF "arena" \in running THEN TRUE ELSE arena = <<>> /\ arena_log = <<>>
    /\ IF "guard" \in running THEN TRUE ELSE guard = <<>> /\ guard_log = <<>>

\* No peripheral is in use.
NoDevice ==
    /\ decl = [kind |-> "RESERVED", n |-> 0]
    /\ Storage = <<>> /\ thread = <<>> /\ pending = 0

\* No update call is in progress.
NoUpdate ==
    /\ cell = Zero /\ initial = Zero /\ foreign = 0
    /\ fn = <<>> /\ pc = <<>> /\ before = <<>> /\ candidate = <<>>
    /\ succeeded = <<>> /\ attempts = <<>> /\ fails = <<>> /\ interfered = <<>>
    /\ swaps = [log |-> <<>>, seen |-> <<>>]

InitValue ==
    /\ NoUpdate /\ NoBuild /\ NoDevice /\ NoLib({})
    /\ access_type \in Widths
    /\ field \in Fields(access_type)
    /\ bits \in {value_t(access_type, raw) : raw \in Samples(access_type)}
    /\ hist = <<>>
    /\ got = NoGet

\* value = value.with_f(x), or value.with_f(idx, x) for an array field.
Derive(f, idx, x, from_get) ==
    /\ Len(hist) < MaxDerive
    /\ bits' = IF f.n = 0
               THEN with_field(access_type, f, bits, x)
               ELSE with_field_array(access_type, f, bits, idx, x)
    /\ hist' = Append(hist, [f |-> f, idx |-> idx, value |-> x,
                             receiver |-> bits, from_get |-> from_get,
                             after |-> receiver_after(bits, bits')])
    /\ got' = NoGet
    /\ UNCHANGED <<access_type, libVars, buildVars, deviceVars, field, updateVars>>

With ==
    \E f \in RegisterFields(access_type, field) :
        \E idx \in Indices(f) :
            \E x \in FieldTypeValues(f.ft) : Derive(f, idx, x, FALSE)

\* value = value.with_f(value.get_f()): the argument is the result of the
\* getter just called on the receiver.
WithGot ==
    /\ got # NoGet
    /\ Derive(got.f, got.idx, got.value, TRUE)

Get ==
    \E idx \in Indices(field) :
        /\ got' = [f |-> field, idx |-> idx,
                   value |-> IF field.n = 0
                             THEN get_field(access_type, field, bits)
                             ELSE get_field_array(access_type, field, bits, idx)]
        /\ UNCHANGED <<access_type, libVars, buildVars, deviceVars, field, bits, hist, updateVars>>

NextValue == With \/ WithGot \/ Get

SpecValue == InitValue /\ [][NextValue]_vars

(***************************************************************************)
(* Array fields indexed without a check: with_f(idx, x) takes any unsigned *)
(* idx.  A shift by the promoted width of the access type or more is       *)
(* undefined; the builds either shift every bit out or shift by the amount *)
(* modulo the width.                                                       *)
(***************************************************************************)
\* Array fields in the lower half of the register, below another field.
LowArrayFields(at) ==
    {f \in [low_bit : {0}, high_bit : {at \div 2 - 1},
            ft : {1} \cup Widths, n : {at \div c : c \in {4, 8}}] :
        /\ bitfield_checks(at, f)
        /\ element_count(f) \in ElementCounts
        /\ f.ft = MinType(f.n)}

\* The shift amounts the build can produce for << s on the access type.
shift_amounts(at, s) ==
    IF s < Promoted(at) THEN {s} ELSE {s, s % Promoted(at)}

\* with_f(idx, value) with both shifts made by s.
with_field_array_by(at, f, _bits, s, value) ==
    value_t(at,
        (_bits \cap Not(Trunc(Shl(low_element_mask(at, f), s, Promoted(at)), at),
                        Promoted(at)))
        \cup Shl(Trunc(value, at) \cap low_element_mask(at, f), s, Promoted(at)))

\* Indices at and beyond element_count: the first two, the one whose
\* product with bits_per_element is 2 ^ UnsignedBits, and the largest.
UncheckedIndices(f) ==
    {idx \in {element_count(f), element_count(f) + 1,
              (2 ^ UnsignedBits) \div bits_per_element(f), 2 ^ UnsignedBits - 1} :
        idx >= element_count(f) /\ idx < 2 ^ UnsignedBits}

\* value = value.with_f(idx, x) with idx >= element_count.
WithUnchecked ==
    /\ Len(hist) < MaxDerive
    /\ \E idx \in UncheckedIndices(field) :
         \E x \in FieldTypeValues(field.ft) :
           \E s \in shift_amounts(access_type, low_bit_of(field, idx)) :
             /\ bits' = with_field_array_by(access_type, field, bits, s, x)
             /\ hist' = Append(hist, [f |-> field, idx |-> idx, value |-> x,
                                      receiver |-> bits, from_get |-> FALSE,
                                      after |-> receiver_after(bits, bits')])
    /\ got' = NoGet
    /\ UNCHANGED <<access_type, libVars, buildVars, deviceVars, field, updateVars>>

\* A register narrower than int, and one as wide.
InitArray ==
    /\ NoUpdate /\ NoBuild /\ NoDevice /\ NoLib({})
    /\ access_type \in {8, 32}
    /\ field \in ArrayFields(access_type) \cup LowArrayFields(access_type)
    /\ bits \in {value_t(access_type, raw) : raw \in Samples(access_type)}
    /\ hist = <<>>
    /\ got = NoGet

\* value = value.with_f(idx, x) with idx < element_count.
WithElement ==
    \E idx \in Indices(field) :
        \E x \in FieldTypeValues(field.ft) : Derive(field, idx, x, FALSE)

NextArray == WithElement \/ WithUnchecked

SpecArray == InitArray /\ [][NextArray]_vars

(***************************************************************************)
(* A register of 32 bits declaring a bool field at bit 0 and a 4-bit field *)
(* at bits 8..11, its values derived from the default-constructed value.   *)
(***************************************************************************)
\* The bit set of a non-negative int literal.
FromNat(k) == {b \in 0 .. 30 : (k \div (2 ^ b)) % 2 = 1}

enable == [low_bit |-> 0, high_bit |-> 0, ft |-> 1, n |-> 0]
priority == [low_bit |-> 8, high_bit |-> 11, ft |-> 8, n |-> 0]
ScenarioRegister == {enable, priority}

ScenarioValues(f) ==
    IF f = enable THEN {FromNat(0), FromNat(1)}
    ELSE {FromNat(0), FromNat(9), FromNat(15)}

InitScenario ==
    /\ NoUpdate /\ NoBuild /\ NoDevice /\ NoLib({})
    /\ access_type = 32
    /\ field \in ScenarioRegister
    /\ bits = value_default(access_type)
    /\ hist = <<>>
    /\ got = NoGet

WithScenario ==
    \E f \in ScenarioRegister :
        \E x \in ScenarioValues(f) : Derive(f, 0, to_field_type(f.ft, x), FALSE)

NextScenario == WithScenario \/ WithGot \/ Get

SpecScenario == InitScenario /\ [][NextScenario]_vars

(***************************************************************************)
(* The build of a register definition: generate.h includes checks.h, whose *)
(* static_asserts are evaluated by the compiler; only a definition that    *)
(* built is ever run.  A field declaration here carries its enumerated     *)
(* constants es (ETL_BFF_FIELD_E), empty for the other kinds of field.     *)
(***************************************************************************)
\* Faulty variant: the enumerated constants not checked.
enum_checks_skipped(at, f) == TRUE

\* ETL_BFF_ENUM: static_assert((__v) == ((__v) & f_meta::low_mask), ...)
enum_checks(at, f) == \A v \in f.es : v = v \cap low_mask(at, f)

\* Faulty variant: the assertion on high_bit against the access type left out.
static_asserts_no_range(at, f) ==
    {m \in {"hi/lo bits bad (backwards?)",
            "not an integer number of elements", "too many bits in enum"} :
        \/ m = "hi/lo bits bad (backwards?)" /\ ~(f.high_bit >= f.low_bit)
        \/ m = "not an integer number of elements"
              /\ f.n # 0 /\ ~(bit_count(f) % f.n = 0)
        \/ m = "too many bits in enum" /\ ~enum_checks(at, f)}

\* The messages of the static_asserts of checks.h that fail for the field f.
\* bit_count is unsigned; the element sizes drawn below are powers of two, for
\* which the remainder of a wrapped bit_count is the one computed here.
static_asserts(at, f) ==
    {m \in {"hi/lo bits bad (backwards?)", "hi bit out of range for type",
            "not an integer number of elements", "too many bits in enum"} :
        \/ m = "hi/lo bits bad (backwards?)" /\ ~(f.high_bit >= f.low_bit)
        \/ m = "hi bit out of range for type" /\ ~(f.high_bit < at)
        \/ m = "not an integer number of elements"
              /\ f.n # 0 /\ ~(bit_count(f) % f.n = 0)
        \/ m = "too many bits in enum" /\ ~enum_checks(at, f)}

\* The initializers the other generators require to be constant expressions:
\* 1 << bits_per_element of low_element_mask, and every enumerator, which
\* must be representable in the underlying type __ft of the enum class.
constant_expressions(at, f) ==
    /\ f.n # 0 => f.n < Promoted(at)
    /\ \A v \in f.es : v \subseteq AllOnes(f.ft)

\* The diagnostics of building a register of the fields fs.
build(at, fs) ==
    UNION {static_asserts(at, f) : f \in fs}
    \cup (IF \A f \in fs : constant_expressions(at, f) THEN {}
          ELSE {"not a constant expression"})

\* The sets of enumerated constants of the declared fields.
EnumSets(at) ==
    {{}, {Zero, One}, {One, FromNat(2)}, {AllOnes(at \div 2)},
     {Zero, {at \div 2}}, {AllOnes(at)}}

\* The field declarations submitted to the build, valid or not.
CandidateFields(at) ==
    {f \in [low_bit : {0, at \div 2},
            high_bit : {0, at \div 2 - 1, at \div 2, at - 1, at},
            ft : {8, at}, n : {0, 2, at \div 2, at}, es : EnumSets(at)] :
        /\ f.n # 0 => f.es = {}        \* ETL_BFF_FIELD_ARRAY takes no constants
        /\ f.es = {} => f.ft = at}

\* The other fields declared in the same register: none, a valid one, or one
\* with its bits backwards.
Companions(at) ==
    {{},
     {[low_bit |-> 0, high_bit |-> at - 1, ft |-> at, n |-> 0, es |-> {}]},
     {[low_bit |-> at - 1, high_bit |-> 0, ft |-> at, n |-> 0, es |-> {}]}}

CandidateSchemas(at) ==
    {{f} \cup c : f \in CandidateFields(at), c \in Companions(at)}

InitBuild ==
    /\ NoUpdate /\ NoDevice /\ NoLib({})
    /\ access_type \in Widths
    /\ schema \in CandidateSchemas(access_type)
    /\ phase = "compile"
    /\ errors = {}
    /\ field \in schema
    /\ bits = value_default(access_type)
    /\ hist = <<>>
    /\ got = NoGet

\* The compiler evaluates the definition; a diagnostic ends the build.
Compile ==
    /\ phase = "compile"
    /\ errors' = build(access_type, schema)
    /\ phase' = IF errors' = {} THEN "built" ELSE "rejected"
    /\ UNCHANGED <<access_type, libVars, schema, valueVars, updateVars, deviceVars>>

\* The built program derives a value with an enumerated constant.
WithEnum ==
    /\ phase = "built"
    /\ \E f \in schema :
           \E c \in f.es : Derive(f, 0, to_field_type(f.ft, c), FALSE)

GetBuilt == phase = "built" /\ Get

NextBuild == Compile \/ WithEnum \/ GetBuilt

SpecBuild == InitBuild /\ [][NextBuild]_vars

(***************************************************************************)
(* generate_accessors.h: read_foo, write_foo, swap_foo and update_foo on   *)
(* the storage cell _foo of generate_fields.h.                             *)
(***************************************************************************)
\* The fields declared in the register the update calls work on: a bool at
\* bit 0 and two fields of the access type sharing the remaining bits.
RegisterLayout(at) ==
    {[low_bit |-> 0, high_bit |-> 0, ft |-> 1, n |-> 0],
     [low_bit |-> 1, high_bit |-> at \div 2, ft |-> at, n |-> 0],
     [low_bit |-> at \div 2 + 1, high_bit |-> at - 1, ft |-> at, n |-> 0]}

\* The modification functions passed to update_foo: v -> v.with_f(value).
UpdateValues(ft) ==
    IF ft = 1 THEN {One} ELSE {AllOnes(ft), Pattern(MaxPattern, ft)}
UpdateFunctions(at) ==
    UNION {{[kind |-> "with", f |-> f, value |-> x] : x \in UpdateValues(f.ft)} :
               f \in RegisterLayout(at)}

\* v + 1 in w-bit arithmetic.
Inc(v, w) ==
    IF v = AllOnes(w) THEN Zero
    ELSE LET m == CHOOSE b \in AllOnes(w) \ v : \A c \in AllOnes(w) \ v : b <= c
         IN  (v \ AllOnes(m)) \cup {m}

\* Further functions a caller may pass: one that counts in the register, one
\* that doubles it, one that replaces it; none commutes with the others.
Modifications(at) ==
    [increment |-> [kind |-> "increment", f |-> [low_bit |-> 0, high_bit |-> at - 1, ft |-> at, n |-> 0],
                    value |-> One],
     double |-> [kind |-> "double", f |-> [low_bit |-> 0, high_bit |-> at - 1, ft |-> at, n |-> 0],
                 value |-> One],
     with |-> [kind |-> "with", f |-> [low_bit |-> 1, high_bit |-> at \div 2, ft |-> at, n |-> 0],
               value |-> Pattern(MaxPattern, at)]]

\* fn(v) for the function g.
call_fn(g, v) ==
    CASE g.kind = "with" -> with_field(access_type, g.f, v, g.value)
      [] g.kind = "increment" -> value_t(access_type, Inc(v, access_type))
      [] g.kind = "double" -> value_t(access_type, Shl(v, 1, access_type))

\* read_foo(): foo_value_t(_foo)
read_reg(mem) == value_t(access_type, mem)

\* Faulty variants: a store without the comparison; a swap that reports
\* success whatever it found; a comparison with the wrong operand.
sync_always_stores(mem, old_bits, new_bits) ==
    [result |-> TRUE, mem |-> new_bits]

sync_reports_success(mem, old_bits, new_bits) ==
    [result |-> TRUE, mem |-> IF mem = old_bits THEN new_bits ELSE mem]

sync_compares_new(mem, old_bits, new_bits) ==
    [result |-> mem = new_bits, mem |-> mem]

\* Faulty variants: a comparison that does not guard the store; a swap that
\* may fail although the cell holds the expected value, as the first one here.
sync_stores_on_failure(mem, old_bits, new_bits) ==
    [result |-> mem = old_bits, mem |-> new_bits]

sync_fails_spuriously(mem, old_bits, new_bits) ==
    IF swaps.log = <<>> /\ \A t \in DOMAIN fails : fails[t] = 0
    THEN [result |-> FALSE, mem |-> mem]
    ELSE [result |-> mem = old_bits,
          mem    |-> IF mem = old_bits THEN new_bits ELSE mem]

\* The builtin __sync_bool_compare_and_swap(&_foo, old_bits, new_bits): one
\* atomic step giving the result and the new contents of the cell.
sync_bool_compare_and_swap(mem, old_bits, new_bits) ==
    [result |-> mem = old_bits,
     mem    |-> IF mem = old_bits THEN new_bits ELSE mem]

\* swap_foo(old_value, new_value)
swap_reg(mem, old_value, new_value) ==
    sync_bool_compare_and_swap(mem, Trunc(old_value, access_type),
                                    Trunc(new_value, access_type))

\* Faulty variant: the candidate of the first attempt reused by later ones.
apply_fn_stale(t, v) ==
    IF attempts[t] > 0 THEN candidate[t]
    ELSE call_fn(fn[t], v)

\* fn(before) in update_foo, for the call t.
apply_fn(t, v) == call_fn(fn[t], v)

\* Faulty variant: the loop left after the first attempt.
update_never_retries(t, ok) == FALSE

\* Faulty variant: the loop capped at two attempts.
update_gives_up(t, ok) == ~ok /\ fails[t] < 1

\* The loop condition of update_foo: while (!succeeded).
update_continue(t, ok) == ~ok

\* The changes of the cell seen by the update calls other than t still running.
Interfere(t, mem) ==
    [u \in DOMAIN pc |->
        IF u # t /\ pc[u] # "done" /\ mem # cell
        THEN interfered[u] + 1 ELSE interfered[u]]

\* do { auto before = this->read_foo(); ... fn(before) ...
update_read(t) ==
    /\ pc[t] = "read"
    /\ before' = [before EXCEPT ![t] = read_reg(cell)]
    /\ candidate' = [candidate EXCEPT ![t] = apply_fn(t, read_reg(cell))]
    /\ attempts' = [attempts EXCEPT ![t] = @ + 1]
    /\ pc' = [pc EXCEPT ![t] = "swap"]
    /\ swaps' = [swaps EXCEPT !.seen[t] = Len(swaps.log)]
    /\ UNCHANGED <<access_type, libVars, buildVars, deviceVars, valueVars, cell, initial, fn, succeeded,
                   fails, interfered, foreign>>

\* ... succeeded = this->swap_foo(before, fn(before)); } while (!succeeded);
update_swap(t) ==
    /\ pc[t] = "swap"
    /\ LET r == swap_reg(cell, before[t], candidate[t])
       IN  /\ cell' = r.mem
           /\ succeeded' = [succeeded EXCEPT ![t] = r.result]
           /\ fails' = [fails EXCEPT ![t] = IF r.result THEN @ ELSE @ + 1]
           /\ pc' = [pc EXCEPT ![t] =
                        IF update_continue(t, r.result) THEN "read" ELSE "done"]
           /\ interfered' = Interfere(t, r.mem)
           /\ swaps' = IF r.result THEN [swaps EXCEPT !.log = Append(@, t)] ELSE swaps
    /\ UNCHANGED <<access_type, libVars, buildVars, deviceVars, valueVars, initial, fn, before, candidate,
                   attempts, foreign>>

\* write_foo(value) by another agent while an update call is running.
write_reg ==
    /\ foreign > 0
    /\ \E t \in DOMAIN pc : pc[t] # "done"
    /\ \E value \in {Zero, AllOnes(access_type)} :
        /\ cell' = Trunc(value, access_type)
        /\ interfered' = Interfere(0, Trunc(value, access_type))
    /\ foreign' = foreign - 1
    /\ UNCHANGED <<access_type, libVars, buildVars, deviceVars, valueVars, initial, fn, pc, before, candidate,
                   succeeded, attempts, fails, swaps>>

\* No foo_value_t is being derived.
NoValue ==
    /\ field = [low_bit |-> 0, high_bit |-> 0, ft |-> 1, n |-> 0]
    /\ bits = Zero /\ hist = <<>> /\ got = NoGet

\* The calls `updaters` of update_foo begin on a cell; another agent may
\* write the cell `writes` times.
InitUpdate(updaters, writes) ==
    /\ NoValue /\ NoBuild /\ NoDevice /\ NoLib({})
    /\ access_type \in Widths
    /\ cell \in Samples(access_type)
    /\ initial = cell
    /\ fn \in [updaters -> UpdateFunctions(access_type)]
    /\ pc = [t \in updaters |-> "read"]
    /\ before = [t \in updaters |-> Zero]
    /\ candidate = [t \in updaters |-> Zero]
    /\ succeeded = [t \in updaters |-> FALSE]
    /\ attempts = [t \in updaters |-> 0]
    /\ fails = [t \in updaters |-> 0]
    /\ interfered = [t \in updaters |-> 0]
    /\ foreign = writes
    /\ swaps = [log |-> <<>>, seen |-> [t \in updaters |-> 0]]

\* Concurrent update calls on one cell, no other writer.
Init == InitUpdate(1 .. MaxUpdaters, 0)

Next == \E t \in DOMAIN pc : update_read(t) \/ update_swap(t)

Spec == Init /\ [][Next]_vars

\* One update call racing the writes of another agent.
InitContend == InitUpdate({1}, MaxForeign)

NextContend == update_read(1) \/ update_swap(1) \/ write_reg

SpecContend == InitContend /\ [][NextContend]_vars

\* The updating thread is scheduled fairly; the other agent need not write.
FairContend == SpecContend /\ WF_vars(update_read(1) \/ update_swap(1))

\* MaxCalls concurrent update calls with functions that do not commute: all
\* of them counting, or counting, doubling and replacing a field in turn.
\* No other writer.
InitLinear ==
    /\ NoValue /\ NoBuild /\ NoDevice /\ NoLib({})
    /\ access_type \in {8, 32}
    /\ cell \in Samples(access_type)
    /\ initial = cell
    /\ LET m == Modifications(access_type)
           turn == <<m.increment, m.double, m.with>>
       IN  fn \in {[t \in 1 .. MaxCalls |-> m.increment],
                   [t \in 1 .. MaxCalls |-> turn[(t % 3) + 1]]}
    /\ pc = [t \in 1 .. MaxCalls |-> "read"]
    /\ before = [t \in 1 .. MaxCalls |-> Zero]
    /\ candidate = [t \in 1 .. MaxCalls |-> Zero]
    /\ succeeded = [t \in 1 .. MaxCalls |-> FALSE]
    /\ attempts = [t \in 1 .. MaxCalls |-> 0]
    /\ fails = [t \in 1 .. MaxCalls |-> 0]
    /\ interfered = [t \in 1 .. MaxCalls |-> 0]
    /\ foreign = 0
    /\ swaps = [log |-> <<>>, seen |-> [t \in 1 .. MaxCalls |-> 0]]

SpecLinear == InitLinear /\ [][Next]_vars

\* Every call that has not returned is scheduled again and again.
FairLinear == SpecLinear /\ \A t \in 1 .. MaxCalls : WF_vars(update_read(t) \/ update_swap(t))

(***************************************************************************)
(* A peripheral: the storage cells of generate_fields.h and the members    *)
(* generate_accessors.h declares for each kind of register.  The register  *)
(* under study is "R"; "other" is a read-write register beside it.  Its    *)
(* fields are those of RegisterLayout.                                     *)
(***************************************************************************)
Kinds == {"RESERVED", "RW", "RO", "WO", "ARRAY_RW", "ARRAY_RO", "ARRAY_WO"}

\* The members declared by ETL_BFF_REG_RO and ETL_BFF_REG_ARRAY_RO ...
RO_members == {"read", "const_addr_of"}
\* ... and by ETL_BFF_REG_WO and ETL_BFF_REG_ARRAY_WO.
WO_members == {"write", "addr_of", "swap", "update"}

members(kind) ==
    CASE kind \in {"RW", "ARRAY_RW"} -> RO_members \cup WO_members
      [] kind \in {"RO", "ARRAY_RO"} -> RO_members
      [] kind \in {"WO", "ARRAY_WO"} -> WO_members
      [] OTHER -> {}

\* The members of the peripheral a member's body names through this->.
calls_of(m) == IF m = "update" THEN {"read", "swap"} ELSE {}

\* The members a program can call: a call of update_foo instantiates its body.
callable(kind) == {m \in members(kind) : calls_of(m) \subseteq members(kind)}

\* Cells of the declarations: __n for the arrays and the reserved entries.
Declarations ==
    {[kind |-> k, n |-> IF k \in {"RW", "RO", "WO"} THEN 1 ELSE 2] : k \in Kinds}

\* The sequences of derivations a caller composes into one value.
ChangeLists(at) ==
    LET c1 == [f |-> [low_bit |-> 0, high_bit |-> 0, ft |-> 1, n |-> 0],
               idx |-> 0, value |-> One]
        c2 == [f |-> [low_bit |-> 1, high_bit |-> at \div 2, ft |-> at, n |-> 0],
               idx |-> 0, value |-> AllOnes(at)]
        c3 == [f |-> [low_bit |-> at \div 2 + 1, high_bit |-> at - 1, ft |-> at,
                      n |-> 0],
               idx |-> 0, value |-> One]
    IN  {<<c1>>, <<c1, c2, c3>>}

\* value.with_f(x), or value.with_f(idx, x) for an array field.
apply_change(at, v, c) ==
    IF c.f.n = 0 THEN with_field(at, c.f, v, c.value)
    ELSE with_field_array(at, c.f, v, c.idx, c.value)

NoWrite == [index |-> 0, value |-> Zero, intact |-> FALSE, done |-> FALSE]

\* An agent that has made no call.
Idle ==
    [pc |-> "idle", op |-> "none", index |-> 0, changes |-> <<>>, applied |-> 0,
     value |-> Zero, before |-> Zero, entry |-> Zero, result |-> Zero,
     ok |-> FALSE, loads |-> 0, stores |-> 0, fails |-> 0, hit |-> 0,
     missed |-> FALSE, modified |-> FALSE, last |-> NoWrite]

\* Faulty variant: every index addresses the first cell.
cell_of_first(index) == 0

\* &_foo[index]
cell_of(index) == index

\* Faulty variant: a store that keeps the bits already set in the cell.
store_bits_or(mem, value) == mem \cup Trunc(value, access_type)

\* _foo[index] = __at(value)
store_bits(mem, value) == Trunc(value, access_type)

\* What the agents other than a, in a call on R, see of a store to r[j].
Observe(a, r, j) ==
    [u \in DOMAIN thread |->
        IF u = a THEN thread[u]
        ELSE [thread[u] EXCEPT
                 !.hit = IF thread[u].pc # "idle" /\ r = "R" /\ j = cell_of(thread[u].index)
                         THEN @ + 1 ELSE @,
                 !.missed = IF thread[u].pc # "idle"
                               /\ ~(r = "R" /\ j = cell_of(thread[u].index))
                            THEN TRUE ELSE @,
                 !.last = IF r = "R" /\ j = cell_of(thread[u].last.index)
                          THEN [@ EXCEPT !.intact = FALSE] ELSE @]]

\* The compiler evaluates the generated members.  The body of update_foo
\* names read_foo through this-> in a template of a class that is no template:
\* where read_foo is not declared, the compiler may reject the definition of
\* the template or wait for an instantiation.
CompileDevice ==
    /\ phase = "compile"
    /\ \/ errors' = {} /\ phase' = "built"
       \/ /\ members(decl.kind) # callable(decl.kind)
          /\ errors' = {"has no member named read_"} /\ phase' = "rejected"
    /\ UNCHANGED <<access_type, libVars, schema, valueVars, updateVars, deviceVars>>

\* The agent a calls the member op of R on the cell index, with an argument
\* composed by the derivations cs.
Begin(a, op, index, cs) ==
    /\ phase = "built"
    /\ thread[a].pc = "idle"
    /\ op \in callable(decl.kind)
    /\ index \in 0 .. (decl.n - 1)
    /\ thread' = [thread EXCEPT ![a] = [@ EXCEPT
           !.pc = IF op \in {"read", "update"} THEN "load" ELSE "args",
           !.op = op, !.index = index, !.changes = cs, !.applied = 0,
           !.value = IF op = "write" THEN value_default(access_type)
                     ELSE thread[a].result,
           !.before = thread[a].result,
           !.entry = Storage["R"][cell_of(index)],
           !.loads = 0, !.stores = 0, !.fails = 0, !.hit = 0,
           !.missed = FALSE]]
    /\ UNCHANGED <<access_type, libVars, valueVars, updateVars, buildVars,
                   decl, Storage, pending>>

\* read_foo(index): foo_value_t(_foo[index]), as a call of its own or as the
\* first statement of the loop of update_foo.
Load(a) ==
    /\ thread[a].pc = "load"
    /\ LET v == read_reg(Storage["R"][cell_of(thread[a].index)])
       IN  thread' = [thread EXCEPT ![a] =
               IF @.op = "read"
               THEN [@ EXCEPT !.result = v, !.loads = @ + 1, !.pc = "idle"]
               ELSE [@ EXCEPT !.before = v, !.value = v, !.applied = 0,
                              !.loads = @ + 1, !.pc = "args"]]
    /\ UNCHANGED <<access_type, libVars, valueVars, updateVars, buildVars,
                   decl, Storage, pending>>

\* One with_ of the argument expression, or of fn(before).
Compose(a) ==
    /\ thread[a].pc = "args"
    /\ thread[a].applied < Len(thread[a].changes)
    /\ thread' = [thread EXCEPT ![a] = [@ EXCEPT
           !.value = apply_change(access_type, @,
                                  thread[a].changes[thread[a].applied + 1]),
           !.applied = @ + 1]]
    /\ UNCHANGED <<access_type, libVars, valueVars, updateVars, buildVars,
                   decl, Storage, pending>>

\* Faulty variant: the member entered before its argument is fully evaluated.
args_evaluated_early(t) == t.applied >= 1

\* The argument expression has been evaluated when the member is entered.
args_evaluated(t) == t.applied = Len(t.changes)

\* write_foo(index, value)
StoreCall(a) ==
    /\ thread[a].pc = "args" /\ thread[a].op = "write"
    /\ args_evaluated(thread[a])
    /\ LET j == cell_of(thread[a].index)
       IN  /\ Storage' = [Storage EXCEPT !["R"][j] =
                              store_bits(@, thread[a].value)]
           /\ thread' = [Observe(a, "R", j) EXCEPT ![a] = [@ EXCEPT
                  !.pc = "idle", !.stores = @ + 1, !.modified = TRUE,
                  !.last = [index |-> thread[a].index,
                            value |-> thread[a].value,
                            intact |-> TRUE, done |-> TRUE]]]
    /\ UNCHANGED <<access_type, libVars, valueVars, updateVars, buildVars, decl, pending>>

\* swap_foo(index, old_value, new_value), as a call of its own or as the
\* second statement of the loop of update_foo followed by the loop test.
SwapCall(a) ==
    /\ thread[a].pc = "args" /\ thread[a].op \in {"swap", "update"}
    /\ args_evaluated(thread[a])
    /\ LET j == cell_of(thread[a].index)
           r == swap_reg(Storage["R"][j], thread[a].before, thread[a].value)
           again == thread[a].op = "update" /\ update_continue(a, r.result)
       IN  /\ Storage' = [Storage EXCEPT !["R"][j] = r.mem]
           /\ thread' = [(IF r.result THEN Observe(a, "R", j) ELSE thread)
                  EXCEPT ![a] = [@ EXCEPT
                      !.ok = r.result,
                      !.stores = IF r.result THEN @ + 1 ELSE @,
                      !.fails = IF r.result THEN @ ELSE @ + 1,
                      !.pc = IF again THEN "load" ELSE "idle",
                      !.modified = ~again,
                      !.last = IF r.result /\ j = cell_of(@.index)
                               THEN [@ EXCEPT !.intact = FALSE] ELSE @]]
    /\ UNCHANGED <<access_type, libVars, valueVars, updateVars, buildVars, decl, pending>>

\* While a call of mainline code is in progress the interrupt handler calls
\* write_ on a cell, with the complement of its contents.
HandlerWrite ==
    /\ phase = "built" /\ pending > 0
    /\ \E t \in DOMAIN thread : thread[t].pc # "idle"
    /\ \E r \in DOMAIN Storage :
         \E j \in DOMAIN Storage[r] :
           \E v \in {Not(Storage[r][j], access_type)} :
             /\ r = "R" => "write" \in callable(decl.kind)
             /\ Storage' = [Storage EXCEPT ![r][j] = store_bits(@, v)]
             /\ thread' = Observe("handler", r, j)
    /\ pending' = pending - 1
    /\ UNCHANGED <<access_type, libVars, valueVars, updateVars, buildVars, decl>>

InitDevice ==
    /\ NoValue /\ NoUpdate /\ NoLib({})
    /\ access_type \in Widths
    /\ schema = {} /\ phase = "compile" /\ errors = {}
    /\ decl \in Declarations
    /\ \E s \in Samples(access_type) :
           Storage = [r \in {"R", "other"} |->
                         [j \in 0 .. ((IF r = "R" THEN decl.n ELSE 1) - 1) |-> s]]
    /\ thread = [a \in {"main"} |-> Idle]
    /\ pending = MaxForeign

\* Mainline code makes accessor calls one after the other: reads, and a call
\* of one of the modifying members.
MainCall ==
    \E index \in 0 .. (decl.n - 1) :
        \/ Begin("main", "read", index, <<>>)
        \/ /\ ~thread["main"].modified
           /\ \E op \in {"write", "swap", "update"} :
                 \E cs \in ChangeLists(access_type) : Begin("main", op, index, cs)

NextDevice ==
    \/ CompileDevice
    \/ MainCall
    \/ Load("main") \/ Compose("main") \/ StoreCall("main") \/ SwapCall("main")
    \/ HandlerWrite

SpecDevice == InitDevice /\ [][NextDevice]_vars

(***************************************************************************)
(* The NVIC driver: two calls of set_irq_priority, one by mainline code and *)
(* one by an interrupt handler, on the interrupt priority registers ipr.   *)
(* R is ipr, an array of read-write registers of 32 bits.                  *)
(***************************************************************************)
\* The array field of ipr: four priorities of one Byte in each register.
ipr_priority == [low_bit |-> 0, high_bit |-> 31, ft |-> 8, n |-> 8]

\* auto bank = irq / 4; auto index = irq % 4;
bank_of(irq) == irq \div 4
index_of(irq) == irq % 4

\* The interrupts whose priority lies in the modelled registers, and the
\* priorities the callers pass.
Irqs == 0 .. (4 * MaxBanks - 1)
Priorities == {FromNat(16), FromNat(224)}

\* update_ipr(bank, [&] (ipr_value_t x) { return x.with_priority(index, priority); })
set_irq_priority(a, irq, prio) ==
    Begin(a, "update", bank_of(irq),
          <<[f |-> ipr_priority, idx |-> index_of(irq), value |-> prio]>>)

InitNvic ==
    /\ NoValue /\ NoUpdate /\ NoLib({})
    /\ access_type = 32
    /\ schema = {} /\ phase = "built" /\ errors = {}
    /\ decl = [kind |-> "ARRAY_RW", n |-> MaxBanks]
    /\ \E s \in Samples(access_type) :
           Storage = [r \in {"R", "other"} |->
                         [j \in 0 .. ((IF r = "R" THEN decl.n ELSE 1) - 1) |-> s]]
    /\ thread = [a \in {"main", "irq"} |-> Idle]
    /\ pending = 0

\* Each of the two agents makes one call, at any time.
NvicCall(a) ==
    /\ ~thread[a].modified
    /\ \E irq \in Irqs : \E prio \in Priorities :
           set_irq_priority(a, irq, prio)

NextNvic ==
    \E a \in {"main", "irq"} :
        NvicCall(a) \/ Load(a) \/ Compose(a) \/ SwapCall(a)

SpecNvic == InitNvic /\ [][NextNvic]_vars

(***************************************************************************)
(* The NVIC driver: enable_irq, disable_irq and clear_pending_irq, called  *)
(* by mainline code and by an interrupt handler.  Each writes one of the   *)
(* register arrays iser, icer, icpr, whose bits the hardware reads as      *)
(* write-1-to-set (iser) and write-1-to-clear (icer, icpr).                *)
(***************************************************************************)
\* The array field of iser, icer and icpr: 32 flags in each register.
nvic_bit == [low_bit |-> 0, high_bit |-> 31, ft |-> 1, n |-> 1]

\* Faulty variant: the index computed as for the priority registers.
iser_index_ipr(irq) == irq % 4

\* unsigned bank = irq / 32; unsigned index = irq % 32;
iser_bank(irq) == irq \div 32
iser_index(irq) == irq % 32

\* The register each function writes.
register_of(op) ==
    CASE op = "enable_irq" -> "iser"
      [] op = "disable_irq" -> "icer"
      [] op = "clear_pending_irq" -> "icpr"

\* The interrupts of the modelled banks.
AllIrqs == 0 .. (32 * MaxBanks - 1)

\* The hardware's reaction to a store of value to reg[bank]: the set bits of
\* the word name the interrupts to enable, disable or make not pending.
nvic_store(hw, reg, bank, value) ==
    LET irqs == {32 * bank + i : i \in value}
    IN  CASE reg = "iser" -> [hw EXCEPT !.enabled = @ \cup irqs]
          [] reg = "icer" -> [hw EXCEPT !.enabled = @ \ irqs]
          [] reg = "icpr" -> [hw EXCEPT !.pended = @ \ irqs]

NoCall ==
    [pc |-> "idle", op |-> "none", irq |-> 0, value |-> Zero,
     reg |-> "none", bank |-> 0, loads |-> 0, stores |-> 0, before |-> {}]

\* The agent a enters enable_irq, disable_irq or clear_pending_irq: the
\* default-constructed value is the receiver of with_bit.
NvicEnter(a, op, irq) ==
    /\ nvic_call[a].pc = "idle"
    /\ nvic_call' = [nvic_call EXCEPT ![a] =
           [NoCall EXCEPT !.pc = "args", !.op = op, !.irq = irq,
                          !.value = value_default(access_type)]]
    /\ UNCHANGED <<nvic_hw, access_type, coreVars, rcc, rcc_log, gpio, gpio_call,
                   arena, arena_log, guard, guard_log>>

\* iser_value_t().with_bit(index, true)
NvicWithBit(a) ==
    /\ nvic_call[a].pc = "args"
    /\ nvic_call' = [nvic_call EXCEPT ![a] = [@ EXCEPT
           !.pc = "store",
           !.value = with_field_array(access_type, nvic_bit, @,
                                      iser_index(nvic_call[a].irq), One)]]
    /\ UNCHANGED <<nvic_hw, access_type, coreVars, rcc, rcc_log, gpio, gpio_call,
                   arena, arena_log, guard, guard_log>>

\* write_iser(bank, value), then the barriers and the return.
NvicWrite(a) ==
    /\ nvic_call[a].pc = "store"
    /\ LET c == nvic_call[a]
           reg == register_of(c.op)
           bank == iser_bank(c.irq)
       IN  /\ nvic_hw' = nvic_store(nvic_hw, reg, bank, Trunc(c.value, access_type))
           /\ nvic_call' = [nvic_call EXCEPT ![a] = [@ EXCEPT
                  !.pc = "done", !.reg = reg, !.bank = bank,
                  !.stores = @ + 1, !.before = nvic_hw]]
    /\ UNCHANGED <<access_type, coreVars, rcc, rcc_log, gpio, gpio_call,
                   arena, arena_log, guard, guard_log>>

InitEnable ==
    /\ NoValue /\ NoUpdate /\ NoBuild /\ NoDevice /\ NoLib({"nvic"})
    /\ access_type = 32
    /\ LET IrqSets == {{}, AllIrqs, {i \in AllIrqs : i % 2 = 1}}
       IN  nvic_hw \in [enabled : IrqSets, pended : IrqSets]
    /\ nvic_call = [a \in {"main", "irq"} |-> NoCall]

NextEnable ==
    \E a \in {"main", "irq"} :
        \/ \E op \in {"enable_irq", "disable_irq", "clear_pending_irq"} :
               \E b \in 0 .. (MaxBanks - 1) : \E i \in {0, 1, 31} :
                   NvicEnter(a, op, 32 * b + i)
        \/ NvicWithBit(a)
        \/ NvicWrite(a)

SpecEnable == InitEnable /\ [][NextEnable]_vars

(***************************************************************************)
(* The stm32l4xx Rcc driver: reset and clock control of the peripherals on *)
(* the APB buses.  An ApbPeripheral is the number apb.h encodes; the       *)
(* registers are words whose bit slot belongs to one peripheral.           *)
(***************************************************************************)
\* name = n | ((bus - 1) << 6) | (rst << 7) | (enr << 8) | (smenr << 9)
\* (the operands occupy different bits: the ors add up).
ApbPeripheral(n, bus, rst, enr, smenr) ==
    n + (bus - 1) * 64 + rst * 128 + enr * 256 + smenr * 512

\* (static_cast<Word>(p) >> 6) & 1
get_bus_index(p) == (p \div 64) % 2

\* (static_cast<Word>(p) >> 5) & 2: the mask 2 keeps bit 1 of the shifted word.
get_extended_bus_index(p) == 2 * (((p \div 32) \div 2) % 2)

\* static_cast<Word>(p) & 0x1F
get_bit_index(p) == p % 32

\* static_cast<Word>(p) & (1 << 7), and & (1 << 8), as bool
has_reset_control(p) == (p \div 128) % 2 # 0
has_clock_control(p) == (p \div 256) % 2 # 0

\* The array field of the reset and enable registers: one flag per slot.
rcc_bit == [low_bit |-> 0, high_bit |-> 31, ft |-> 1, n |-> 1]

\* switch (bus) { case i: write_r(read_r().with_bit(slot, value)); break; }
\* over the registers regs[1], regs[2], regs[3] of the cases 0, 1, 2, logged
\* as a call of op.
apb_switch(op, p, bus, slot, regs, value) ==
    LET reg == IF bus \in 0 .. 2 THEN regs[bus + 1] ELSE "none"
    IN  /\ Len(rcc_log) < MaxRccCalls
        /\ rcc' = IF reg = "none" THEN rcc
                  ELSE [rcc EXCEPT ![reg] =
                           with_field_array(access_type, rcc_bit,
                                            read_reg(@), slot, value)]
        /\ rcc_log' = Append(rcc_log, [op |-> op, p |-> p, bus |-> bus,
                                       reg |-> reg, slot |-> slot, was |-> rcc])
        /\ UNCHANGED <<access_type, coreVars, nvic_hw, nvic_call, gpio, gpio_call,
                     arena, arena_log, guard, guard_log>>

enter_reset(p) ==
    /\ has_reset_control(p)
    /\ apb_switch("enter_reset", p, get_extended_bus_index(p), get_bit_index(p),
                  <<"apb1rstr1", "apb1rstr2", "apb2rstr">>, One)

leave_reset(p) ==
    /\ has_reset_control(p)
    /\ apb_switch("leave_reset", p, get_bus_index(p), get_bit_index(p),
                  <<"apb1rstr1", "apb1rstr2", "apb2rstr">>, Zero)

enable_clock(p) ==
    /\ has_clock_control(p)
    /\ apb_switch("enable_clock", p, get_bus_index(p), get_bit_index(p),
                  <<"apb1enr1", "apb1enr2", "apb2enr">>, One)

disable_clock(p) ==
    /\ has_clock_control(p)
    /\ apb_switch("disable_clock", p, get_bus_index(p), get_bit_index(p),
                  <<"apb1enr1", "apb1enr2", "apb2enr">>, Zero)

\* The peripherals of the model: on APB1 with bit numbers 0..63, on APB2 with
\* bit numbers 0..31, with and without reset and clock control.
ApbPeripherals ==
    {ApbPeripheral(n, 1, c[1], c[2], c[3]) :
        n \in {1, 31, 32, 63}, c \in {<<1, 1, 1>>, <<1, 0, 0>>, <<0, 1, 0>>}}
    \cup
    {ApbPeripheral(n, 2, c[1], c[2], c[3]) :
        n \in {1, 31}, c \in {<<1, 1, 1>>, <<1, 0, 0>>, <<0, 1, 0>>}}

InitRcc ==
    /\ NoValue /\ NoUpdate /\ NoBuild /\ NoDevice /\ NoLib({"rcc"})
    /\ access_type = 32
    /\ \E v \in Samples(access_type) :
           rcc = [r \in {"apb1rstr1", "apb1rstr2", "apb2rstr",
                         "apb1enr1", "apb1enr2", "apb2enr"} |-> v]
    /\ rcc_log = <<>>

NextRcc ==
    \E p \in ApbPeripherals :
        enter_reset(p) \/ leave_reset(p) \/ enable_clock(p) \/ disable_clock(p)

SpecRcc == InitRcc /\ [][NextRcc]_vars

(***************************************************************************)
(* The stm32f4xx Gpio driver: the mutators that set one property of the    *)
(* pins named by a mask.                                                   *)
(***************************************************************************)
\* The array field of each configuration register: one element per pin.
gpio_field(reg) ==
    CASE reg = "otyper" -> [low_bit |-> 0, high_bit |-> 15, ft |-> 32, n |-> 1]
      [] reg \in {"moder", "ospeedr", "pupdr"} ->
             [low_bit |-> 0, high_bit |-> 31, ft |-> 32, n |-> 2]
      [] reg \in {"afrl", "afrh"} ->
             [low_bit |-> 0, high_bit |-> 31, ft |-> 32, n |-> 4]

\* Faulty variant: the loop without mask >>= 1.
RECURSIVE mask_loop_no_shift(_, _, _, _, _, _, _)
mask_loop_no_shift(val, mask, bit, reg, x, i, count) ==
    IF i >= count THEN val
    ELSE mask_loop_no_shift(IF bit \in mask
                            THEN with_field_array(access_type, gpio_field(reg), val, i, x)
                            ELSE val,
                            mask, bit, reg, x, i + 1, count)

\* for (i = first; i < count; ++i) {
\*   if (mask & (1 << bit)) val = val.with_field(i, x);
\*   mask >>= 1;
\* }
RECURSIVE mask_loop(_, _, _, _, _, _, _)
mask_loop(val, mask, bit, reg, x, i, count) ==
    IF i >= count THEN val
    ELSE mask_loop(IF bit \in mask
                   THEN with_field_array(access_type, gpio_field(reg), val, i, x)
                   ELSE val,
                   Shr(mask, 1), bit, reg, x, i + 1, count)

\* GPIO_MUTATOR: auto val = read_reg(); Word mask = mask_; the loop.
MutatorRead(reg, mask_, x) ==
    /\ gpio_call.pc = "idle"
    /\ gpio_call' = [gpio_call EXCEPT
           !.pc = "write", !.reg = reg, !.mask = mask_, !.x = x,
           !.read = read_reg(gpio[reg]),
           !.val = mask_loop(read_reg(gpio[reg]), Trunc(mask_, 32), 0, reg, x, 0, 16),
           !.loads = @ + 1, !.was = gpio]
    /\ UNCHANGED <<access_type, coreVars, nvic_hw, nvic_call, rcc, rcc_log, gpio,
                   arena, arena_log, guard, guard_log>>

\* GPIO_MUTATOR: write_reg(val);
MutatorWrite ==
    /\ gpio_call.pc = "write"
    /\ gpio' = [gpio EXCEPT ![gpio_call.reg] = store_bits(@, gpio_call.val)]
    /\ gpio_call' = [gpio_call EXCEPT !.pc = "done", !.stores = @ + 1]
    /\ UNCHANGED <<access_type, coreVars, nvic_hw, nvic_call, rcc, rcc_log,
                   arena, arena_log, guard, guard_log>>

\* set_alternate_function: af &= 0xF; the two reads; the loop.
AfRead(mask_, af) ==
    /\ gpio_call.pc = "idle"
    /\ LET x == af \cap FromNat(15)
           mask == Trunc(mask_, 32)
       IN  gpio_call' = [gpio_call EXCEPT
               !.pc = "write_afrl", !.reg = "afrl", !.mask = mask_, !.x = x,
               !.read = read_reg(gpio["afrl"]),
               !.read_high = read_reg(gpio["afrh"]),
               !.val = mask_loop(read_reg(gpio["afrl"]), mask, 0, "afrl", x, 0, 8),
               !.val_high = mask_loop(read_reg(gpio["afrh"]), mask, 8, "afrh", x, 0, 8),
               !.loads = @ + 2, !.was = gpio]
    /\ UNCHANGED <<access_type, coreVars, nvic_hw, nvic_call, rcc, rcc_log, gpio,
                   arena, arena_log, guard, guard_log>>

\* write_afrl(val_low);
AfWriteLow ==
    /\ gpio_call.pc = "write_afrl"
    /\ gpio' = [gpio EXCEPT !["afrl"] = store_bits(@, gpio_call.val)]
    /\ gpio_call' = [gpio_call EXCEPT !.pc = "write_afrh", !.stores = @ + 1]
    /\ UNCHANGED <<access_type, coreVars, nvic_hw, nvic_call, rcc, rcc_log,
                   arena, arena_log, guard, guard_log>>

\* write_afrh(val_high);
AfWriteHigh ==
    /\ gpio_call.pc = "write_afrh"
    /\ gpio' = [gpio EXCEPT !["afrh"] = store_bits(@, gpio_call.val_high)]
    /\ gpio_call' = [gpio_call EXCEPT !.pc = "done", !.stores = @ + 1]
    /\ UNCHANGED <<access_type, coreVars, nvic_hw, nvic_call, rcc, rcc_log,
                   arena, arena_log, guard, guard_log>>

InitGpio ==
    /\ NoValue /\ NoUpdate /\ NoBuild /\ NoDevice /\ NoLib({"gpio"})
    /\ access_type = 32
    /\ \E v \in Samples(access_type) :
           gpio = [r \in {"moder", "otyper", "ospeedr", "pupdr", "afrl", "afrh"} |->
                      IF r = "otyper" THEN Trunc(v, 16) ELSE v]
    /\ gpio_call = [pc |-> "idle", reg |-> "none", mask |-> Zero, x |-> Zero,
                    read |-> Zero, read_high |-> Zero, val |-> Zero,
                    val_high |-> Zero, loads |-> 0, stores |-> 0, was |-> <<>>]

\* The masks are no pin, every pin, pins 0 and 8, pin 15 and pins 3 and 12;
\* the values those of the enumerations, and alternate functions up to 0x1F.
NextGpio ==
    \/ \E mask_ \in {Zero, AllOnes(16), {0, 8}, {15}, {3, 12}} :
         \/ \E reg \in {"moder", "ospeedr", "pupdr"} :
              \E x \in 0 .. 3 : MutatorRead(reg, mask_, FromNat(x))
         \/ \E x \in 0 .. 1 : MutatorRead("otyper", mask_, FromNat(x))
         \/ \E af \in {0, 5, 15, 26} : AfRead(mask_, FromNat(af))
    \/ MutatorWrite
    \/ AfWriteLow
    \/ AfWriteHigh

SpecGpio == InitGpio /\ [][NextGpio]_vars

(***************************************************************************)
(* mem/arena.h: the Arena, an allocator over a table of memory regions.    *)
(* A region is [base, len], a range of bytes; sizes are std::size_t and    *)
(* wrap at 2 ^ SizeBits.  A failed ETL_ASSERT halts the program.           *)
(***************************************************************************)
\* sizeof(Region): a pointer and a count on the 32-bit target.
SizeofRegion == 8

\* bytes = (bytes + 3) & ~3u
round_up(bytes) ==
    LET sum == (bytes + 3) % (2 ^ SizeBits) IN sum - (sum % 4)

\* RangePtr::tail_from(start): slice(start, _count)
tail_from(region, start) ==
    [base |-> region.base + start, len |-> (region.len - start) % (2 ^ SizeBits)]

\* An entry of the log, and the arena after an assertion failed.
ArenaCall(op, bytes, outcome, result) ==
    Append(arena_log, [op |-> op, bytes |-> bytes, outcome |-> outcome,
                       result |-> result, was |-> arena])
ArenaHalted == [arena EXCEPT !.halted = TRUE]

\* _total_bytes = 0; for (...) { ...; _total_bytes += _table[i].byte_length(); }
RECURSIVE byte_lengths(_)
byte_lengths(regions) ==
    IF regions = <<>> THEN 0
    ELSE (regions[1].len + byte_lengths(Tail(regions))) % (2 ^ SizeBits)

\* Faulty variant: _total_bytes not cleared before the loop.
total_of_kept(regions) == (arena.total_bytes + byte_lengths(regions)) % (2 ^ SizeBits)

total_of(regions) == byte_lengths(regions)

arenaFrame == <<access_type, coreVars, nvic_hw, nvic_call, rcc, rcc_log, gpio, gpio_call,
                guard, guard_log>>

\* Arena::reset()
arena_reset ==
    LET region_count == Len(arena.prototype)
        table_size == (SizeofRegion * region_count) % (2 ^ SizeBits)
        copied == arena.prototype
    IN  /\ ~arena.halted /\ Len(arena_log) < MaxArenaCalls
        /\ arena' =
             IF arena.tracking = "RequireMatchingDeallocation"
                /\ arena.allocation_count # 0
             THEN ArenaHalted
             ELSE IF region_count = 0 THEN arena
             ELSE IF ~(copied[1].len >= table_size) THEN ArenaHalted
             ELSE [arena EXCEPT
                      !.table = [copied EXCEPT ![1] = tail_from(@, table_size)],
                      !.total_bytes = total_of(copied),
                      !.free_bytes = (total_of(copied) - table_size)
                                         % (2 ^ SizeBits)]
        /\ arena_log' = ArenaCall("reset", 0, "void", 0)
        /\ UNCHANGED arenaFrame

\* Arena::allocate(bytes): the outcome is a block at the address result,
\* nullptr or, when the failure policy asserts, a failed assertion.
arena_allocate(requested) ==
    LET bytes == round_up(requested)
        fit == {i \in DOMAIN arena.table : arena.table[i].len >= bytes}
        first == CHOOSE i \in fit : \A j \in fit : i <= j
    IN  /\ ~arena.halted /\ Len(arena_log) < MaxArenaCalls
        /\ IF fit # {}
           THEN /\ arena' = [arena EXCEPT
                       !.table[first] = tail_from(@, bytes),
                       !.free_bytes = (@ - bytes) % (2 ^ SizeBits),
                       !.allocation_count =
                           IF arena.tracking = "RequireMatchingDeallocation"
                           THEN (@ + 1) % (2 ^ SizeBits) ELSE @]
                /\ arena_log' = ArenaCall("allocate", requested, "block",
                                          arena.table[first].base)
           ELSE IF arena.failure = "AssertOnAllocationFailure"
                THEN /\ arena' = ArenaHalted
                     /\ arena_log' = ArenaCall("allocate", requested, "assert", 0)
                ELSE /\ arena' = arena
                     /\ arena_log' = ArenaCall("allocate", requested, "nullptr", 0)
        /\ UNCHANGED arenaFrame

\* RequireMatchingDeallocation::deallocate(ptr)
arena_deallocate ==
    /\ ~arena.halted /\ Len(arena_log) < MaxArenaCalls
    /\ arena.tracking = "RequireMatchingDeallocation"
    /\ arena' = IF arena.allocation_count = 0 THEN ArenaHalted
                ELSE [arena EXCEPT !.allocation_count = @ - 1]
    /\ arena_log' = ArenaCall("deallocate", 0, "void", 0)
    /\ UNCHANGED arenaFrame

\* The region tables given to the constructor: none; one region; two regions
\* of which the first keeps 8 bytes beside the table; one region too small
\* for the table.
RegionTables ==
    {<<>>,
     <<[base |-> 16, len |-> 24]>>,
     <<[base |-> 16, len |-> 24], [base |-> 64, len |-> 16]>>,
     <<[base |-> 16, len |-> 4]>>}

\* Arena(rom_table): _table(), _total_bytes(0), _free_bytes(0), and
\* _allocation_count(0).
InitArena ==
    /\ NoValue /\ NoUpdate /\ NoBuild /\ NoDevice /\ NoLib({"arena"})
    /\ access_type = 32
    /\ \E rom_table \in RegionTables :
         \E fp \in {"AssertOnAllocationFailure", "ReturnNullptrOnAllocationFailure"} :
           \E tp \in {"DoNotRequireDeallocation", "RequireMatchingDeallocation"} :
             arena = [prototype |-> rom_table, table |-> <<>>, total_bytes |-> 0,
                      free_bytes |-> 0, allocation_count |-> 0,
                      failure |-> fp, tracking |-> tp, halted |-> FALSE]
    /\ arena_log = <<>>

NextArena ==
    \/ arena_reset
    \/ \E requested \in {0, 6, 12, 2 ^ SizeBits - 1} : arena_allocate(requested)
    \/ arena_deallocate

SpecArena == InitArena /\ [][NextArena]_vars

(***************************************************************************)
(* scope_guard.h: the guards derived from one make_guard call.  An object  *)
(* is [active, destroyed]; the function is the one given to make_guard,    *)
(* and guard.calls counts its calls.                                       *)
(***************************************************************************)
\* Faulty variant: the move constructor without other._active = false.
moved_from_kept(other) == other

\* ScopeGuard(ScopeGuard &&): other._active = false
moved_from(other) == [other EXCEPT !.active = FALSE]

\* An entry of the log.
GuardCall(op, object, called) ==
    Append(guard_log, [op |-> op, object |-> object, called |-> called, was |-> guard])

Alive == {g \in DOMAIN guard.objects : ~guard.objects[g].destroyed}

guardFrame == <<access_type, coreVars, nvic_hw, nvic_call, rcc, rcc_log, gpio, gpio_call,
                arena, arena_log>>

\* ScopeGuard(ScopeGuard && other): _active{move(other._active)}, then
\* other._active = false.
guard_move(other) ==
    /\ Len(guard_log) < MaxGuardCalls /\ Len(guard.objects) < MaxGuards
    /\ guard' = [guard EXCEPT !.objects =
                    Append([@ EXCEPT ![other] = moved_from(@)],
                           [active |-> guard.objects[other].active,
                            destroyed |-> FALSE])]
    /\ guard_log' = GuardCall("move", other, FALSE)
    /\ UNCHANGED guardFrame

\* dismiss(): _active = false
guard_dismiss(g) ==
    /\ Len(guard_log) < MaxGuardCalls
    /\ guard' = [guard EXCEPT !.objects[g].active = FALSE]
    /\ guard_log' = GuardCall("dismiss", g, FALSE)
    /\ UNCHANGED guardFrame

\* ~ScopeGuard(): if (_active) _fn();
guard_destroy(g) ==
    /\ Len(guard_log) < MaxGuardCalls
    /\ guard' = [objects |-> [guard.objects EXCEPT ![g].destroyed = TRUE],
                 calls |-> IF guard.objects[g].active THEN guard.calls + 1
                           ELSE guard.calls]
    /\ guard_log' = GuardCall("destroy", g, guard.objects[g].active)
    /\ UNCHANGED guardFrame

\* make_guard(fn): ScopeGuard(FunctionType &&) with _active{true}.
InitGuard ==
    /\ NoValue /\ NoUpdate /\ NoBuild /\ NoDevice /\ NoLib({"guard"})
    /\ access_type = 32
    /\ guard = [objects |-> <<[active |-> TRUE, destroyed |-> FALSE]>>, calls |-> 0]
    /\ guard_log = <<>>

\* Any object within its lifetime may be moved from, dismissed or destroyed.
NextGuard ==
    \E g \in Alive : guard_move(g) \/ guard_dismiss(g) \/ guard_destroy(g)

SpecGuard == InitGuard /\ [][NextGuard]_vars

(***************************************************************************)
(* Properties of the value types.                                          *)
(***************************************************************************)
Last == hist[Len(hist)]
Before == hist[Len(hist) - 1]
\* The bit positions a field declaration names, and those of one element.
FieldBits(f) == f.low_bit .. f.high_bit
ElementBits(f, i) == (f.low_bit + i * f.n) .. (f.low_bit + i * f.n + f.n - 1)
\* The value x fits in a field of bc bits.
Fits(x, bc) == x \subseteq AllOnes(bc)

C7_NonInterference ==
    (/\ Len(hist) >= 2 /\ got # NoGet
     /\ Before.f = field /\ field.n = 0
     /\ Last.f \in Neighbours(access_type, field)
     /\ FieldBits(Last.f) \cap FieldBits(field) = {}
     /\ Fits(Before.value, bit_count(field)))
    => got.value = Before.value

C7_Witness ==
    /\ Len(hist) >= 2 /\ got # NoGet
    /\ Before.f = field /\ field.n = 0
    /\ Last.f \in Neighbours(access_type, field)
    /\ Last.f.high_bit < field.low_bit
    /\ Fits(Before.value, bit_count(field))
    /\ Before.value # Zero
    /\ ~Fits(Last.value, bit_count(Last.f))
    /\ got.value = Before.value

C9_FullWidth ==
    (field.low_bit = 0 /\ field.high_bit = access_type - 1) =>
        /\ low_mask(access_type, field) = AllOnes(access_type)
        /\ in_place_mask(access_type, field) = AllOnes(access_type)
        /\ low_mask(access_type, field) # Zero
        /\ \A s \in low_mask_eval(access_type, field).shifts : s < access_type

C9_Witness ==
    /\ field.low_bit = 0 /\ field.high_bit = access_type - 1 /\ field.n = 0
    /\ access_type = 8
    /\ hist # <<>> /\ Last.f = field /\ Last.receiver = Zero
    /\ bits = AllOnes(8)

AllFields(at) ==
    {f \in [low_bit : AllOnes(at), high_bit : AllOnes(at), ft : {at}, n : {0}] :
        bitfield_checks(at, f)}

\* C11 (mask formulas): for every field with 0 <= low_bit <= high_bit < W,
\* bit_count = high_bit - low_bit + 1, low_mask = 2^bit_count - 1 (bit_count
\* set bits, right-aligned) and in_place_mask = low_mask << low_bit in W-bit
\* arithmetic, which has exactly the bits low_bit..high_bit set, for W in
\* 8, 16, 32, 64.  Checked for the field under study in every state and for
\* every field of the register's width when the register is declared.
C11_MaskFormulasOf(at, f) ==
    (0 <= f.low_bit /\ f.low_bit <= f.high_bit /\ f.high_bit < at) =>
        /\ bit_count(f) = f.high_bit - f.low_bit + 1
        /\ bit_count(f) = Cardinality(FieldBits(f))
        /\ low_mask(at, f) = {b \in AllOnes(at) : b < f.high_bit - f.low_bit + 1}
        /\ in_place_mask(at, f) = Shl(low_mask(at, f), f.low_bit, at)
        /\ in_place_mask(at, f) = FieldBits(f)

C11_MaskFormulas ==
    /\ access_type \in Widths
    /\ C11_MaskFormulasOf(access_type, field)
    /\ hist = <<>> => \A f \in AllFields(access_type) :
                          C11_MaskFormulasOf(access_type, f)

C11_Witness ==
    /\ access_type = 64
    /\ field.low_bit = 32 /\ field.high_bit = 63 /\ field.n = 0
    /\ in_place_mask(access_type, field) = 32 .. 63
    /\ hist # <<>> /\ Last.f = field /\ Last.receiver = Zero
    /\ bits = 32 .. 63

EnableAndPriority ==
    /\ Len(hist) = 2
    /\ \E i, j \in 1 .. 2 :
          /\ i # j
          /\ hist[i].f = enable /\ hist[i].value = FromNat(1)
          /\ hist[j].f = priority /\ hist[j].value = FromNat(9)

\* C13 (scenario): in a 32-bit register with enable at bit 0 and priority at
\* bits 8..11 the default-constructed Value has raw bits 0, and
\* Value{}.with_enable(1).with_priority(9) has raw bits 0x00000901 with
\* get_enable() = 1 and get_priority() = 9; the same holds when the two
\* derivations are applied in the opposite order.
C13_Scenario ==
    /\ hist = <<>> => bits = FromNat(0)
    /\ EnableAndPriority =>
           /\ bits = FromNat(2305)          \* 0x00000901
           /\ get_field(access_type, enable, bits) = FromNat(1)
           /\ get_field(access_type, priority, bits) = FromNat(9)
           /\ (got # NoGet /\ field = enable) => got.value = FromNat(1)
           /\ (got # NoGet /\ field = priority) => got.value = FromNat(9)

C13_Witness ==
    /\ access_type = 32 /\ EnableAndPriority
    /\ hist[1].f = enable /\ hist[1].receiver = FromNat(0)
    /\ hist[2].f = priority /\ hist[2].receiver = FromNat(1)
    /\ bits = {0, 8, 11}
    /\ field = priority /\ got # NoGet /\ got.value = {0, 3}

(***************************************************************************)
(* Properties of the build.                                                *)
(***************************************************************************)
AssertMessages ==
    {"hi/lo bits bad (backwards?)", "hi bit out of range for type",
     "not an integer number of elements", "too many bits in enum"}

\* The field declaration f breaks one of the four rules of the validator.
Violation(at, f) ==
    \/ f.high_bit < f.low_bit
    \/ f.high_bit >= at
    \/ f.n # 0 /\ (f.high_bit - f.low_bit + 1) % f.n # 0
    \/ \E v \in f.es : v # (v \cap low_mask(at, f))

\* The program has run: a value was derived or read.
Running == hist # <<>> \/ got # NoGet

C15_NoTruncation ==
    /\ (phase # "compile" /\ errors \cap AssertMessages = {}) =>
          \A f \in schema :
              Shr(in_place_mask(access_type, f), f.low_bit)
                = low_mask(access_type, f)
    /\ (phase = "built" /\ schema # {}) =>
        /\ \A f \in schema :
               /\ Shr(in_place_mask(access_type, f), f.low_bit)
                    = low_mask(access_type, f)
               /\ \A c \in f.es :
                      get_field(access_type, f,
                          with_field(access_type, f, value_default(access_type), c))
                        = c
        /\ (Len(hist) = 1 /\ got # NoGet /\ Last.f = field) =>
               /\ Last.receiver = Zero
               /\ \E c \in field.es : Last.value = c /\ got.value = c

C15_Witness ==
    /\ phase = "built" /\ access_type = 64
    /\ field.low_bit = 32 /\ field.high_bit = 63 /\ field.ft = 8
    /\ Len(hist) = 1 /\ Last.f = field /\ Last.receiver = Zero
    /\ got # NoGet /\ got.value = One /\ Last.value = One
    /\ bits = {32}

(***************************************************************************)
(* Properties of the accessors of a peripheral.                            *)
(***************************************************************************)
Main == thread["main"]
\* The cell of R the current call of mainline code names.
MainCell == Storage["R"][Main.index]
\* A step of mainline code.
MainStep == thread' # thread /\ pending' = pending /\ phase' = phase
\* The steps in which read_, write_ and swap_ act.
ReadStep == MainStep /\ Main.pc = "load" /\ Main.op = "read"
WriteStep == MainStep /\ Main.pc = "args" /\ Main.op = "write"
                      /\ thread'["main"].pc = "idle"
SwapStep == MainStep /\ Main.pc = "args" /\ Main.op \in {"swap", "update"}
                     /\ thread'["main"].pc # "args"
\* The value the derivations cs compose from v.
RECURSIVE ComposeAll(_, _, _)
ComposeAll(at, v, cs) ==
    IF cs = <<>> THEN v
    ELSE ComposeAll(at, apply_change(at, v, Head(cs)), Tail(cs))

\* C16 (read and write): read_R() performs exactly one load of R's cell and
\* returns a Value whose raw bits are the loaded contents; write_R(v)
\* performs exactly one store, of v's raw bits unmodified, and always
\* succeeds; hence a read_R() after write_R(v) with no modification of the
\* cell in between returns v, and raw bits survive the conversion to a Value
\* and back.
C16_ReadWrite ==
    /\ [][/\ ReadStep =>
                /\ thread'["main"].pc = "idle"
                /\ thread'["main"].loads = 1 /\ thread'["main"].stores = 0
                /\ thread'["main"].result = MainCell
                /\ Storage' = Storage
          /\ WriteStep =>
                /\ thread'["main"].stores = 1 /\ thread'["main"].loads = 0
                /\ Storage'["R"][Main.index] = Main.value
                /\ thread'["main"].modified
                /\ thread'["main"].last.value = Main.value]_vars
    /\ [](phase = "built" =>
            /\ (Main.pc = "args" /\ Main.op = "write"
                  /\ Main.applied = Len(Main.changes)) => ENABLED StoreCall("main")
            /\ (Main.op = "read" /\ Main.pc = "idle" /\ Main.last.done
                  /\ Main.last.intact /\ Main.index = Main.last.index) =>
                   /\ Main.result = Main.last.value
                   /\ MainCell = Main.result)

C16_Witness ==
    /\ decl.kind = "ARRAY_RW" /\ access_type = 64
    /\ Main.op = "read" /\ Main.pc = "idle" /\ Main.loads = 1
    /\ Main.last.done /\ Main.last.intact
    /\ Main.index = 1 /\ Main.last.index = 1
    /\ Main.result = Main.last.value /\ Main.result # Zero
    /\ Storage["R"][0] # Main.result
    /\ 33 \in Main.result

\* C17 (accessors follow the declared mutability): read_R exists exactly when
\* the register can be read (read-only or read-write); write_R,
\* compare_and_swap and update exist exactly when it can be written
\* (write-only or read-write); no accessor call changes the cell of a
\* read-only register, and a reserved entry has no accessor.  An accessor
\* exists when the declaration builds and a program can call the member.
C17_AccessorSet ==
    phase # "compile" =>
        /\ phase = "built"
        /\ "read" \in callable(decl.kind)
               <=> decl.kind \in {"RO", "RW", "ARRAY_RO", "ARRAY_RW"}
        /\ \A m \in {"write", "swap", "update"} :
               m \in callable(decl.kind)
                   <=> decl.kind \in {"WO", "RW", "ARRAY_WO", "ARRAY_RW"}
        /\ decl.kind \in {"RO", "ARRAY_RO"} =>
               /\ Main.stores = 0 /\ ~Main.modified
               /\ \A j \in DOMAIN Storage["R"] : Storage["R"][j] = Storage["R"][0]
        /\ decl.kind = "RESERVED" =>
               (members(decl.kind) = {} /\ Main.op = "none")

\* C18 (array registers): read(i), write(i, v), compare_and_swap(i, old, new)
\* and update(i, fn) access only cell i of the register: every other cell of
\* the register and every cell of the other registers is as before the step;
\* a swap on cell i succeeds exactly when cell i holds the expected bits, so a
\* concurrent write to another cell never makes it fail: update fails at most
\* once per store to cell i by another agent.
C18_CellIsolation ==
    /\ [][/\ MainStep =>
                \A r \in DOMAIN Storage : \A j \in DOMAIN Storage[r] :
                    (r # "R" \/ j # thread'["main"].index) =>
                        Storage'[r][j] = Storage[r][j]
          /\ ReadStep => thread'["main"].result = Storage["R"][Main.index]
          /\ WriteStep => Storage'["R"][Main.index] = Main.value
          /\ SwapStep =>
                /\ thread'["main"].ok <=> (MainCell = Main.before)
                /\ Storage'["R"][Main.index] =
                       IF MainCell = Main.before THEN Main.value ELSE MainCell]_vars
    /\ [](phase = "built" /\ Main.op = "update" => Main.fails <= Main.hit)

C18_Witness ==
    /\ decl.kind = "ARRAY_RW" /\ decl.n = 2
    /\ Main.op = "update" /\ Main.pc = "idle" /\ Main.modified /\ Main.ok
    /\ Main.index = 1
    /\ Main.missed /\ Main.hit = 0 /\ Main.fails = 0 /\ pending = 0
    /\ Storage["R"][1] = Main.value /\ Storage["R"][1] # Main.entry
    /\ Storage["R"][0] # Storage["R"][1]

\* C19 (composed write): when the caller composes several field changes with
\* successive with_ and issues one write, or passes the composition as the fn
\* of update, the cell changes in one step from its previous contents to the
\* fully composed value; while the derivations are evaluated the cell is not
\* touched by the caller, and it never holds a value with only some of the
\* changes applied.
C19_ComposedWrite ==
    /\ [][(MainStep /\ Storage'["R"][Main.index] # MainCell) =>
             /\ Main.applied = Len(Main.changes)
             /\ Storage'["R"][Main.index] =
                    ComposeAll(access_type,
                               IF Main.op = "write" THEN value_default(access_type)
                               ELSE MainCell,
                               Main.changes)]_vars
    /\ [](phase = "built" =>
            /\ (Main.pc = "args" /\ Main.hit = 0) => MainCell = Main.entry
            /\ (Main.op \in {"write", "swap", "update"} /\ pending = MaxForeign) =>
                   MainCell \in
                       {Main.entry,
                        ComposeAll(access_type,
                                   IF Main.op = "write"
                                   THEN value_default(access_type) ELSE Main.entry,
                                   Main.changes)})

C19_Witness ==
    /\ decl.kind = "RW" /\ Main.op = "update" /\ Main.pc = "idle"
    /\ Len(Main.changes) = 3 /\ Main.modified /\ Main.ok
    /\ Main.fails >= 1
    /\ MainCell = ComposeAll(access_type, Main.before, Main.changes)
    /\ MainCell # Main.before
    /\ \A k \in 1 .. 2 :
           MainCell # ComposeAll(access_type, Main.before, SubSeq(Main.changes, 1, k))

(***************************************************************************)
(* Properties of the accessors.                                            *)
(***************************************************************************)
Calls == DOMAIN pc
AllReturned == \A t \in Calls : pc[t] = "done"
\* The update calls modify pairwise non-overlapping fields.
DisjointCalls ==
    \A t, u \in Calls :
        t # u => FieldBits(fn[t].f) \cap FieldBits(fn[u].f) = {}
\* The result of fn of call t on the register contents v.
FnOf(t, v) == with_field(access_type, fn[t].f, v, fn[t].value)

\* C1 (no lost update): when concurrent update calls with_ non-overlapping
\* fields and nobody else writes, then under every interleaving, once all
\* have returned, each field reads as its value & low_mask and every bit
\* outside those fields is as it was initially.
C1_NoLostUpdate ==
    (AllReturned /\ DisjointCalls /\ foreign = 0) =>
        /\ \A t \in Calls :
               get_field(access_type, fn[t].f, cell)
                 = Trunc(fn[t].value, access_type) \cap low_mask(access_type, fn[t].f)
        /\ cell \ UNION {FieldBits(fn[t].f) : t \in Calls}
             = initial \ UNION {FieldBits(fn[t].f) : t \in Calls}

C1_Witness ==
    /\ AllReturned /\ DisjointCalls /\ foreign = 0
    /\ Cardinality(Calls) = 2
    /\ \E t \in Calls : fails[t] > 0
    /\ \E t \in Calls : ~Fits(fn[t].value, bit_count(fn[t].f))
    /\ initial \ UNION {FieldBits(fn[t].f) : t \in Calls} # {}
    /\ cell # initial

\* C2 (compare_and_swap is one atomic step): the step in which a swap acts
\* either finds the cell equal to the expected bits, stores the desired bits
\* and returns true, or finds it different, leaves it unchanged and returns
\* false; comparison and store belong to the same step.
C2_SwapAtomic ==
    [][\A t \in Calls :
          (pc[t] = "swap" /\ pc'[t] # "swap") =>
              \/ (cell = before[t] /\ cell' = candidate[t] /\ succeeded'[t])
              \/ (cell # before[t] /\ cell' = cell /\ ~succeeded'[t])]_vars

C2_Witness ==
    \E t, u \in Calls :
        /\ t # u
        /\ pc[t] = "read" /\ fails[t] = 1 /\ ~succeeded[t]
        /\ pc[u] = "done" /\ succeeded[u] /\ cell = candidate[u]
        /\ cell # before[t] /\ cell # candidate[t]

\* C3 (an attempt of update): each attempt reads the cell into before, applies
\* fn to before and swaps (before, fn(before)); a failed swap leaves the cell
\* alone and goes back to the read.  The cell changes only by one step from v
\* to fn(v), v being its contents just before the step, at most once per call.
C3_UpdateAttempt ==
    [][/\ \A t \in Calls :
            /\ (pc[t] = "read" /\ pc'[t] # "read") =>
                   /\ pc'[t] = "swap" /\ cell' = cell
                   /\ before'[t] = cell /\ candidate'[t] = FnOf(t, cell)
            /\ (pc[t] = "swap" /\ pc'[t] # "swap") =>
                   \/ (pc'[t] = "done" /\ cell = before[t] /\ cell' = FnOf(t, cell))
                   \/ (pc'[t] = "read" /\ cell' = cell)
            /\ pc[t] = "done" => pc'[t] = "done"
       /\ cell' # cell =>
            \E t \in Calls :
                pc[t] = "swap" /\ pc'[t] = "done" /\ cell' = FnOf(t, cell)]_vars

C3_Witness ==
    \E t \in Calls :
        /\ pc[t] = "done" /\ fails[t] >= 1 /\ attempts[t] = fails[t] + 1
        /\ before[t] # initial
        /\ candidate[t] # FnOf(t, initial)
        /\ cell = FnOf(t, before[t])

\* C4 (retry until success): update returns only after one of its own swaps
\* succeeded; every failed swap is followed by another attempt, however many
\* have failed, so a call that has returned made exactly one more attempt
\* than it had failures and its change was stored.
C4_RetryUntilSuccess ==
    /\ [](\A t \in Calls :
            /\ pc[t] = "done" => (succeeded[t] /\ attempts[t] = fails[t] + 1)
            /\ pc[t] # "done" => ~succeeded[t])
    /\ [][\A t \in Calls :
            /\ (pc[t] = "swap" /\ pc'[t] # "swap" /\ cell # before[t]) =>
                   (pc'[t] = "read" /\ fails'[t] = fails[t] + 1)
            /\ (pc[t] # "done" /\ pc'[t] = "done") =>
                   (cell = before[t] /\ cell' = FnOf(t, before[t]))]_vars

C4_Witness ==
    /\ pc[1] = "done" /\ succeeded[1]
    /\ fails[1] = MaxForeign /\ attempts[1] = MaxForeign + 1
    /\ foreign = 0

\* C5 (bounded only by contention): with finitely many foreign modifications
\* and a fairly scheduled updating thread the call returns; it fails at most
\* once per foreign modification, and with no modification it returns after
\* one read and one successful swap.
C5_BoundedByContention ==
    /\ <>AllReturned
    /\ [](\A t \in Calls : fails[t] <= interfered[t])
    /\ [](\A t \in Calls :
            (pc[t] = "done" /\ interfered[t] = 0) =>
                (attempts[t] = 1 /\ fails[t] = 0))

C5_Witness ==
    /\ pc[1] = "done"
    /\ interfered[1] >= 1 /\ fails[1] = interfered[1]
    /\ cell = FnOf(1, before[1])

(***************************************************************************)
(* Properties of the NVIC driver.                                          *)
(***************************************************************************)
\* The interrupt and the priority of the call of the agent a.
IrqOf(a) == 4 * thread[a].index + thread[a].changes[1].idx
PriorityOf(a) == thread[a].changes[1].value
Called(a) == thread[a].op = "update"
Returned(a) == thread[a].pc = "idle" /\ thread[a].modified
\* The priority slot i of the bank j; the contents every bank started with,
\* kept by the register beside ipr, which no call addresses.
Slot(mem, i) == get_field_array(access_type, ipr_priority, mem, i)
InitialBank == Storage["other"][0]
\* The step stores to the cell j of the register r.
Stores(r, j) == Storage'[r][j] # Storage[r][j]

\* C20 (set_irq_priority): a call changes only the priority slot irq % 4 of
\* the bank irq / 4, by the compare-and-swap of the retry loop; when two calls
\* for different IRQs race, once both have returned both priorities are
\* present and every other slot of every bank holds its previous value,
\* whatever the interleaving.
C20_SetIrqPriority ==
    /\ [][\A r \in DOMAIN Storage : \A j \in DOMAIN Storage[r] :
            Stores(r, j) =>
                \E a \in DOMAIN thread :
                    /\ Called(a) /\ thread[a].pc = "args" /\ thread'[a].ok
                    /\ r = "R" /\ j = IrqOf(a) \div 4
                    /\ Storage[r][j] = Trunc(thread[a].before, access_type)
                    /\ \A i \in 0 .. 3 :
                           Slot(Storage'[r][j], i) =
                               IF i = IrqOf(a) % 4 THEN PriorityOf(a)
                               ELSE Slot(Storage[r][j], i)]_vars
    /\ [](Returned("main") /\ Returned("irq") /\ IrqOf("main") # IrqOf("irq") =>
            \A j \in DOMAIN Storage["R"] : \A i \in 0 .. 3 :
                Slot(Storage["R"][j], i) =
                    CASE 4 * j + i = IrqOf("main") -> PriorityOf("main")
                      [] 4 * j + i = IrqOf("irq") -> PriorityOf("irq")
                      [] OTHER -> Slot(InitialBank, i))

\* Two calls for different IRQs of one bank, with different priorities, have
\* both returned, and one of them had to retry.
C20_Witness ==
    /\ Returned("main") /\ Returned("irq")
    /\ IrqOf("main") # IrqOf("irq")
    /\ IrqOf("main") \div 4 = IrqOf("irq") \div 4
    /\ PriorityOf("main") # PriorityOf("irq")
    /\ thread["main"].fails >= 1
    /\ InitialBank # Zero
    /\ Slot(Storage["R"][IrqOf("main") \div 4], IrqOf("main") % 4) = PriorityOf("main")
    /\ Slot(Storage["R"][IrqOf("irq") \div 4], IrqOf("irq") % 4) = PriorityOf("irq")

(***************************************************************************)
(* Properties of enable_irq, disable_irq and clear_pending_irq.            *)
(***************************************************************************)
\* The step in which the call of the agent a stores.
IrqStore(a) == nvic_call[a].pc = "store" /\ nvic_call'[a].pc = "done"

\* C21 (enable_irq, disable_irq, clear_pending_irq): the call issues exactly
\* one store and no load; the store goes to bank irq / 32 of ISER (ICER,
\* ICPR) with exactly bit irq % 32 set; with ISER write-1-to-set the
\* interrupt is enabled when the call returns (disabled, not pending for
\* the other two), an interrupt already in that state changes nothing, and
\* the state of every other interrupt is unchanged, also when the calls of
\* two agents interleave.
C21_EnableIrq ==
    /\ [][\A a \in DOMAIN nvic_call :
            IrqStore(a) =>
                LET c == nvic_call'[a]
                    set == c.op = "enable_irq"
                    clear == c.op = "disable_irq"
                    unpend == c.op = "clear_pending_irq"
                IN  /\ c.loads = 0 /\ c.stores = 1
                    /\ c.reg = (IF set THEN "iser" ELSE IF clear THEN "icer" ELSE "icpr")
                    /\ c.bank = c.irq \div 32
                    /\ Trunc(c.value, access_type) = {c.irq % 32}
                    /\ nvic_hw'.enabled =
                           IF set THEN nvic_hw.enabled \cup {c.irq}
                           ELSE IF clear THEN nvic_hw.enabled \ {c.irq}
                           ELSE nvic_hw.enabled
                    /\ nvic_hw'.pended =
                           IF unpend THEN nvic_hw.pended \ {c.irq} ELSE nvic_hw.pended
                    /\ set => c.irq \in nvic_hw'.enabled
                    /\ set /\ c.irq \in nvic_hw.enabled => nvic_hw' = nvic_hw
                    /\ clear /\ c.irq \notin nvic_hw.enabled => nvic_hw' = nvic_hw]_vars
    /\ [][nvic_hw' # nvic_hw => \E a \in DOMAIN nvic_call : IrqStore(a)]_vars
    /\ [](\A a \in DOMAIN nvic_call :
            /\ nvic_call[a].loads = 0
            /\ nvic_call[a].stores = (IF nvic_call[a].pc = "done" THEN 1 ELSE 0))

\* Mainline code enabled interrupt 32, which was disabled, and the handler
\* enabled interrupt 33 of the same bank, which was enabled already.
C21_Witness ==
    /\ nvic_call["main"].pc = "done" /\ nvic_call["irq"].pc = "done"
    /\ nvic_call["main"].op = "enable_irq" /\ nvic_call["main"].irq = 32
    /\ nvic_call["irq"].op = "enable_irq" /\ nvic_call["irq"].irq = 33
    /\ 32 \notin nvic_call["main"].before.enabled
    /\ 33 \in nvic_call["irq"].before.enabled
    /\ {32, 33} \subseteq nvic_hw.enabled
    /\ 34 \notin nvic_hw.enabled
    /\ nvic_call["main"].value = {0} /\ nvic_call["irq"].value = {1}

(***************************************************************************)
(* Properties of the stm32l4xx Rcc driver.                                 *)
(***************************************************************************)
\* The bus and the bit number an ApbPeripheral encodes.
BusOf(p) == ((p \div 64) % 2) + 1
BitNumberOf(p) == p % 64
\* The index the documentation of get_extended_bus_index gives.
ExtendedIndex(p) ==
    IF BusOf(p) = 2 THEN 2 ELSE IF BitNumberOf(p) < 32 THEN 0 ELSE 1
\* The registers after the i-th call.
RccAfter(i) == IF i = Len(rcc_log) THEN rcc ELSE rcc_log[i + 1].was

\* C22 (get_extended_bus_index): the result is 0 for an APB1 peripheral with
\* bit number 0..31, 1 for an APB1 peripheral with bit number 32..63 and 2
\* for an APB2 peripheral; stated of the index enter_reset computes.
C22_ExtendedBusIndex ==
    \A i \in DOMAIN rcc_log :
        rcc_log[i].op = "enter_reset" =>
            rcc_log[i].bus = ExtendedIndex(rcc_log[i].p)

\* C30 (reset and clock pairs): enter_reset(p) and leave_reset(p) select the
\* same register (APB1RSTR1, APB1RSTR2 or APB2RSTR by bus and bit number) and
\* the same bit get_bit_index(p); a pair with nothing in between, on a
\* peripheral not in reset, leaves every register as it was before;
\* enable_clock(p) and disable_clock(p) agree on the register and the bit.
C30_ResetPair ==
    \A i \in DOMAIN rcc_log : i < Len(rcc_log) =>
        LET c == rcc_log[i]
            d == rcc_log[i + 1]
            expected == <<"apb1rstr1", "apb1rstr2", "apb2rstr">>[ExtendedIndex(c.p) + 1]
        IN  /\ (c.op = "enter_reset" /\ d.op = "leave_reset" /\ c.p = d.p) =>
                /\ c.reg = expected /\ d.reg = expected
                /\ c.slot = d.slot /\ c.slot = c.p % 32
                /\ c.slot \in d.was[expected]
                /\ c.slot \notin c.was[expected] => RccAfter(i + 1) = c.was
            /\ (c.op = "enable_clock" /\ d.op = "disable_clock" /\ c.p = d.p) =>
                /\ c.reg = d.reg /\ c.reg # "none"
                /\ c.slot = d.slot /\ c.slot = c.p % 32

(***************************************************************************)
(* Properties of the Gpio mutators.                                        *)
(***************************************************************************)
\* The element of the pin i in a word of the register reg.
PinOf(reg, word, i) == get_field_array(access_type, gpio_field(reg), word, i)
\* The word holds x for the pins of pins that the mask names, shifted by
\* base, and for the others what the word old holds.
Masked(reg, word, old, pins, base, x) ==
    /\ \A i \in pins :
           PinOf(reg, word, i) = IF (i + base) \in gpio_call.mask THEN x
                                 ELSE PinOf(reg, old, i)
    /\ word \ FieldBits(gpio_field(reg)) = old \ FieldBits(gpio_field(reg))

\* C23 (Gpio mutators): set_mode, set_output_type, set_output_speed and
\* set_pull read the register once, replace the element of every pin whose
\* mask bit is 1 by x, leave every other element as read and write the
\* result with one store: no register changes before that store and only the
\* mutator's register changes in it.  set_alternate_function issues two
\* stores, to AFRL for the pins 0..7 and then to AFRH for the pins 8..15.
C23_GpioMutator ==
    /\ [](gpio_call.pc = "write" => gpio = gpio_call.was /\ gpio_call.loads = 1)
    /\ [](gpio_call.pc = "done" /\ gpio_call.reg # "afrl" =>
            /\ gpio_call.loads = 1 /\ gpio_call.stores = 1
            /\ Masked(gpio_call.reg, gpio[gpio_call.reg], gpio_call.read,
                      0 .. 15, 0, gpio_call.x)
            /\ \A r \in DOMAIN gpio : r # gpio_call.reg => gpio[r] = gpio_call.was[r])
    /\ [](gpio_call.pc = "write_afrl" => gpio = gpio_call.was)
    /\ [](gpio_call.pc \in {"write_afrh", "done"} /\ gpio_call.reg = "afrl" =>
            /\ Masked("afrl", gpio["afrl"], gpio_call.read, 0 .. 7, 0, gpio_call.x)
            /\ \A r \in DOMAIN gpio \ {"afrl", "afrh"} : gpio[r] = gpio_call.was[r])
    /\ [](gpio_call.pc = "write_afrh" =>
            gpio["afrh"] = gpio_call.was["afrh"] /\ gpio_call.stores = 1)
    /\ [](gpio_call.pc = "done" /\ gpio_call.reg = "afrl" =>
            /\ gpio_call.stores = 2
            /\ Masked("afrh", gpio["afrh"], gpio_call.read_high, 0 .. 7, 8,
                      gpio_call.x))
    /\ [][gpio' # gpio => gpio_call'.stores = gpio_call.stores + 1]_vars

\* set_alternate_function(pins 3 and 12, 5) after its first store: AFRL holds
\* the new function of pin 3 while AFRH holds the old one of pin 12.
C23_Witness ==
    /\ gpio_call.pc = "write_afrh"
    /\ gpio_call.mask = {3, 12} /\ gpio_call.x = FromNat(5)
    /\ PinOf("afrl", gpio["afrl"], 3) = FromNat(5)
    /\ PinOf("afrh", gpio["afrh"], 4) # FromNat(5)
    /\ PinOf("afrh", gpio_call.val_high, 4) = FromNat(5)
    /\ gpio["afrl"] # gpio_call.was["afrl"]

(***************************************************************************)
(* Properties of the Arena.                                                *)
(***************************************************************************)
\* The arena after the i-th call; the resets before it; its block.
ArenaAfter(i) == IF i = Len(arena_log) THEN arena ELSE arena_log[i + 1].was
Epoch(i) == Cardinality({k \in 1 .. (i - 1) : arena_log[k].op = "reset"})
\* bytes rounded up to a multiple of 4, as a number.
Rounded(bytes) == bytes + ((4 - (bytes % 4)) % 4)
Allocated(i) ==
    arena_log[i].op = "allocate" /\ arena_log[i].outcome = "block"
Block(i) ==
    arena_log[i].result .. (arena_log[i].result + Rounded(arena_log[i].bytes) - 1)
\* The i-th call is an allocate that behaves as documented.
AllocateAsDocumented(i) ==
    LET e == arena_log[i]
        a == e.was
        after == ArenaAfter(i)
        size == Rounded(e.bytes)
        fit == {k \in DOMAIN a.table : a.table[k].len >= size}
        first == CHOOSE k \in fit : \A j \in fit : k <= j
        denied == /\ e.outcome = IF a.failure = "ReturnNullptrOnAllocationFailure"
                                 THEN "nullptr" ELSE "assert"
                  /\ a.failure = "ReturnNullptrOnAllocationFailure" => after = a
                  /\ after.table = a.table /\ after.free_bytes = a.free_bytes
    IN  IF Epoch(i) = 0 \/ fit = {} THEN denied
        ELSE /\ e.outcome = "block" /\ e.result = a.table[first].base
             /\ after.table = [a.table EXCEPT ![first] =
                                  [base |-> @.base + size, len |-> @.len - size]]
             /\ after.free_bytes = a.free_bytes - size
             /\ after.total_bytes = a.total_bytes

\* C24 (Arena::allocate): every request before the first reset() is denied,
\* with ReturnNullptrOnAllocationFailure by nullptr and no change of state;
\* after reset() the request, rounded up to a multiple of 4, is taken from
\* the front of the first region of the table that is long enough, whose
\* base is returned, and get_free_count() decreases by the rounded size; if
\* no region is long enough the call reports failure and changes no state;
\* blocks returned between two resets never overlap.
C24_Allocate ==
    /\ \A i \in DOMAIN arena_log :
           arena_log[i].op = "allocate" => AllocateAsDocumented(i)
    /\ \A i, j \in DOMAIN arena_log :
           (i < j /\ Allocated(i) /\ Allocated(j) /\ Epoch(i) = Epoch(j)) =>
               Block(i) \cap Block(j) = {}

\* The prototype regions' lengths added up, as a number.
RECURSIVE SumLen(_)
SumLen(regions) ==
    IF regions = <<>> THEN 0 ELSE regions[1].len + SumLen(Tail(regions))
\* The sizes requested of the arena since the last reset, up to the i-th call.
RequestsUpTo(i) ==
    LET from == CHOOSE k \in 0 .. i :
                    /\ k = 0 \/ arena_log[k].op = "reset"
                    /\ \A j \in (k + 1) .. i : arena_log[j].op # "reset"
        RECURSIVE list(_)
        list(j) == IF j <= from THEN <<>>
                   ELSE IF arena_log[j].op = "allocate"
                        THEN Append(list(j - 1), arena_log[j].bytes)
                        ELSE list(j - 1)
    IN  list(i)
\* Calls of the log, up to the i-th, that returned.
Returning(i, op, outcome) ==
    Cardinality({k \in 1 .. i : /\ arena_log[k].op = op
                                /\ arena_log[k].outcome = outcome
                                /\ ~ArenaAfter(k).halted})

\* C25 (Arena::reset): after any earlier allocations reset() restores the
\* unoccupied state: get_total_count() is the sum of the prototype regions'
\* lengths, get_free_count() is that less sizeof(Region) * region_count, the
\* table is the prototype less the space of the table, and the same sequence
\* of allocate calls gets the same addresses after every reset.  With
\* RequireMatchingDeallocation the outstanding count is allocations minus
\* deallocations, deallocate asserts that it is not zero and reset() that
\* it is zero.
C25_Reset ==
    /\ \A i \in DOMAIN arena_log :
         LET e == arena_log[i]
             a == e.was
             after == ArenaAfter(i)
             count == Len(a.prototype)
             matching == a.tracking = "RequireMatchingDeallocation"
         IN  /\ (e.op = "reset" /\ ~after.halted) =>
                   /\ after.total_bytes = SumLen(a.prototype)
                   /\ after.free_bytes = after.total_bytes - SizeofRegion * count
                   /\ count > 0 =>
                        after.table = [a.prototype EXCEPT ![1] =
                            [base |-> @.base + SizeofRegion * count,
                             len |-> @.len - SizeofRegion * count]]
                   /\ after.allocation_count = 0
             /\ e.op = "reset" =>
                   (after.halted <=>
                       \/ matching /\ a.allocation_count # 0
                       \/ count > 0 /\ a.prototype[1].len < SizeofRegion * count)
             /\ e.op = "deallocate" =>
                   /\ matching
                   /\ after.halted <=> a.allocation_count = 0
             /\ (matching /\ ~after.halted) =>
                   after.allocation_count =
                       Returning(i, "allocate", "block") - Returning(i, "deallocate", "void")
    /\ \A i, j \in DOMAIN arena_log :
         (/\ arena_log[i].op = "allocate" /\ arena_log[j].op = "allocate"
          /\ Epoch(i) >= 1 /\ Epoch(j) >= 1
          /\ RequestsUpTo(i) = RequestsUpTo(j)) =>
             /\ arena_log[i].outcome = arena_log[j].outcome
             /\ arena_log[i].result = arena_log[j].result

\* A second reset() after an allocation from each of the two regions: the
\* request made again gets the address it got after the first reset.
C25_Witness ==
    /\ Len(arena_log) = 5 /\ ~arena.halted
    /\ Len(arena.prototype) = 2
    /\ arena_log[1].op = "reset"
    /\ arena_log[2].op = "allocate" /\ arena_log[2].bytes = 6
    /\ arena_log[3].op = "allocate" /\ arena_log[3].bytes = 12
    /\ arena_log[3].result = 64
    /\ arena_log[4].op = "reset"
    /\ arena_log[4].was.free_bytes < arena_log[5].was.free_bytes
    /\ arena_log[5].op = "allocate" /\ arena_log[5].bytes = 6
    /\ arena_log[5].result = arena_log[2].result

\* The guards after the i-th call of the log, and the guards at creation.
GuardAfter(i) == IF i = Len(guard_log) THEN guard ELSE guard_log[i + 1].was
GuardCreated == IF guard_log = <<>> THEN guard ELSE guard_log[1].was
DismissedWhileActive ==
    \E i \in DOMAIN guard_log :
        /\ guard_log[i].op = "dismiss"
        /\ guard_log[i].was.objects[guard_log[i].object].active

\* C26 (ScopeGuard): a guard calls its function at destruction iff it is
\* active; it is active when created, inactive for good after dismiss(), and
\* a move leaves the source inactive and the destination active iff the
\* source was.  Over any moves, dismissals and destructions of the guards of
\* one make_guard call the function is called at most once, and exactly once
\* when every guard is destroyed and none was dismissed while active.
C26_ScopeGuard ==
    /\ GuardCreated.objects = <<[active |-> TRUE, destroyed |-> FALSE]>>
    /\ GuardCreated.calls = 0
    /\ guard.calls <= 1
    /\ \A i \in DOMAIN guard_log :
         LET e == guard_log[i]
             held == e.was.objects
             left == GuardAfter(i).objects
             called == GuardAfter(i).calls - e.was.calls
         IN  /\ called = (IF e.op = "destroy" /\ held[e.object].active THEN 1 ELSE 0)
             /\ e.op = "dismiss" => ~left[e.object].active
             /\ e.op = "move" =>
                   /\ Len(left) = Len(held) + 1
                   /\ ~left[e.object].active
                   /\ left[Len(left)].active = held[e.object].active
                   /\ ~left[Len(left)].destroyed
             /\ \A g \in DOMAIN held : ~held[g].active => ~left[g].active
    /\ (\A g \in DOMAIN guard.objects : guard.objects[g].destroyed) =>
           guard.calls = (IF DismissedWhileActive THEN 0 ELSE 1)

\* The guard was moved twice, the moved-from objects dismissed or destroyed
\* while inactive, and the last holder's destruction called the function.
C26_Witness ==
    /\ Len(guard.objects) = 3
    /\ \A g \in DOMAIN guard.objects : guard.objects[g].destroyed
    /\ \E i \in DOMAIN guard_log : guard_log[i].op = "move" /\ guard_log[i].object = 2
    /\ guard_log[Len(guard_log)].op = "destroy"
    /\ guard_log[Len(guard_log)].called
    /\ guard.calls = 1

\* The cell after the functions of the calls in `order` are applied, one
\* after the other, to the initial contents.
RECURSIVE Effect(_)
Effect(order) ==
    IF order = <<>> THEN initial
    ELSE call_fn(fn[order[Len(order)]], Effect(SubSeq(order, 1, Len(order) - 1)))
\* A register's contents as a number.
RECURSIVE NumberOf(_)
NumberOf(v) ==
    IF v = {} THEN 0
    ELSE LET b == CHOOSE c \in v : TRUE IN 2 ^ b + NumberOf(v \ {b})
Counting == \A t \in DOMAIN fn : fn[t].kind = "increment"

\* C27 (linearizability of update): with update calls as the only writers,
\* whatever their functions, the cell always holds the functions of the calls
\* that have swapped, applied to the initial contents in the order of their
\* swaps; no call swaps twice and a call that returned has swapped.  Once all
\* have returned the cell holds fn_p(n)(...fn_p(1)(v0)) for a permutation p
\* of the calls, and v0 + n modulo 2^W when every call increments.
C27_Linearizable ==
    /\ \A i, j \in DOMAIN swaps.log : i # j => swaps.log[i] # swaps.log[j]
    /\ \A t \in DOMAIN pc : pc[t] = "done" <=> \E i \in DOMAIN swaps.log : swaps.log[i] = t
    /\ cell = Effect(swaps.log)
    /\ (\A t \in DOMAIN pc : pc[t] = "done") =>
           /\ Len(swaps.log) = MaxCalls
           /\ {swaps.log[i] : i \in DOMAIN swaps.log} = 1 .. MaxCalls
           /\ (Counting /\ access_type = 8) =>
                  NumberOf(cell) = (NumberOf(initial) + MaxCalls) % (2 ^ 8)

\* Counting, doubling and replacing calls have all returned after retries,
\* in an order other than that of their start, and the cell differs from
\* what the order 1, 2, 3 gives.
C27_Witness ==
    /\ \A t \in DOMAIN pc : pc[t] = "done"
    /\ ~Counting
    /\ SubSeq(swaps.log, 1, 3) = <<3, 1, 2>>
    /\ \E t \in DOMAIN pc : fails[t] > 0
    /\ cell # Effect(<<1, 2, 3>>)

\* The sum of the failed swaps of the calls 1 .. n.
RECURSIVE FailedUpTo(_)
FailedUpTo(n) == IF n = 0 THEN 0 ELSE fails[n] + FailedUpTo(n - 1)
\* The call t makes a swap that fails.
FailsNow(t) == pc[t] = "swap" /\ fails'[t] = fails[t] + 1

\* C28 (lock-free progress): a swap inside update fails only if the cell
\* differs from the value that attempt read, so with n update calls as the
\* only writers a failed attempt follows another call's successful swap made
\* since the attempt's read; at most n * (n - 1) / 2 attempts fail in all,
\* and under weak fairness every call returns.
C28_LockFree ==
    /\ [][\A t \in DOMAIN pc :
            FailsNow(t) =>
                /\ cell # before[t]
                /\ \E k \in (swaps.seen[t] + 1) .. Len(swaps.log) : swaps.log[k] # t]_vars
    /\ [](FailedUpTo(MaxCalls) <= (MaxCalls * (MaxCalls - 1)) \div 2)
    /\ <>(\A t \in DOMAIN pc : pc[t] = "done")

\* All calls have returned after as many failed attempts as the bound allows.
C28_Witness ==
    /\ \A t \in DOMAIN pc : pc[t] = "done"
    /\ FailedUpTo(MaxCalls) = (MaxCalls * (MaxCalls - 1)) \div 2
    /\ \E t \in DOMAIN pc : fails[t] = MaxCalls - 1

\* The array field F is validated and its elements narrower than the register.
ValidatedArray(f) ==
    f.n # 0 /\ bit_count(f) % f.n = 0 /\ f.n < access_type
\* The bits in which the last derivation's result differs from its receiver.
Changed == (bits \ Last.receiver) \cup (Last.receiver \ bits)
ElementMasks(f) ==
    /\ \A i, j \in 0 .. (element_count(f) - 1) :
           i # j => in_place_mask_of(access_type, f, i)
                        \cap in_place_mask_of(access_type, f, j) = {}
    /\ UNION {in_place_mask_of(access_type, f, i) : i \in 0 .. (element_count(f) - 1)}
           = in_place_mask(access_type, f)
    /\ (hist # <<>> /\ Last.f = f /\ Last.idx < element_count(f)) =>
           /\ Changed \subseteq in_place_mask_of(access_type, f, Last.idx)
           /\ Changed \subseteq FieldBits(f)
           /\ \A j \in 0 .. (element_count(f) - 1) :
                  j # Last.idx => Changed \cap ElementBits(f, j) = {}

\* C29 as stated (array field masks): for a validated array field F the
\* masks in_place_mask_of(i), i < element_count, are pairwise disjoint and
\* their union is in_place_mask(F); with_F(i, v) with i < element_count
\* changes no bit outside F and no bit of another element; an index
\* i >= element_count is not rejected and addresses bits outside the field.
C29_ElementMasks ==
    ValidatedArray(field) =>
        /\ ElementMasks(field)
        /\ (hist # <<>> /\ Last.f = field /\ Last.idx >= element_count(field)) =>
               /\ in_place_mask_of(access_type, field, Last.idx)
                      \cap in_place_mask(access_type, field) = {}
               /\ Changed \cap FieldBits(field) = {}

\* C29, amended: as above for the masks and for i < element_count; an index
\* i >= element_count is not rejected, and as long as low_bit + i *
\* bits_per_element neither wraps nor reaches the promoted width of the
\* access type it addresses bits above the field and none of the field.
C29_ElementMasksInWidth ==
    ValidatedArray(field) =>
        /\ ElementMasks(field)
        /\ (/\ hist # <<>> /\ Last.f = field /\ Last.idx >= element_count(field)
            /\ field.low_bit + Last.idx * field.n < Promoted(access_type)) =>
               /\ in_place_mask_of(access_type, field, Last.idx)
                      \cap in_place_mask(access_type, field) = {}
               /\ in_place_mask_of(access_type, field, Last.idx)
                      = ElementBits(field, Last.idx) \cap AllOnes(access_type)
               /\ Changed \subseteq ElementBits(field, Last.idx)
               /\ Changed \cap FieldBits(field) = {}

\* with_F(element_count, v) on an array field in the lower half of the
\* register returned a value in which bits of the field above F changed.
C29_Witness ==
    /\ ValidatedArray(field) /\ field.high_bit < access_type - 1
    /\ hist # <<>> /\ Last.f = field /\ Last.idx = element_count(field)
    /\ Changed # {}
    /\ Changed \subseteq (field.high_bit + 1) .. (access_type - 1)

====
